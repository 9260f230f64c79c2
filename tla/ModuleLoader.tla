---------------------------- MODULE ModuleLoader ----------------------------
(***************************************************************************)
(* load_module (constructor/kernel.cxx): which modules a project is built  *)
(* from.  The recursive function is a machine with an explicit stack; a    *)
(* frame is an activation of load_module, a step is one turn of one of its *)
(* loops or one of the parts between them.                                 *)
(*                                                                         *)
(* The manifests are a variable that never changes, so that one run        *)
(* covers many of them.                                                    *)
(***************************************************************************)
EXTENDS Integers, Sequences, FiniteSets

CONSTANTS Names,      \* module identifiers a manifest may mention
          Root,       \* the project itself
          Rank,       \* Rank[n]: place of a name in the ordered dictionaries
          Layers,     \* abstraction layers
          Domains,    \* codec domains
          None,       \* an absent layer or domain
          Manifests   \* sets of manifests a build may find

ASSUME NamesAssumption == Root \in Names
ASSUME RankAssumption == /\ Rank \in [Names -> Nat]
                         /\ \A m, n \in Names : Rank[m] = Rank[n] => m = n
ASSUME NoneAssumption == None \notin Layers \cup Domains

\* What load_module reads of a module.
Manifest == [special: BOOLEAN,                 \* class Specialis
             needs: SUBSET Names,              \* CoModuliRequisiti
             needsLayer: Layers \cup {None},   \* CoPlanusAbstractionis
             offersLayer: Layers \cup {None},  \* CoImplantatioAbstractionis
             default: BOOLEAN,                 \* CoImplantatioDefalta
             suits: BOOLEAN,                   \* CoSystema, CoSubsystema
             needsCodecs: Domains \cup {None}, \* CoCodicesUtitur
             offersCodecs: SUBSET Domains]     \* CoCodicemDefinit

ASSUME ManifestsAssumption ==
  \A f \in Manifests :
    /\ Root \in DOMAIN f
    /\ DOMAIN f \subseteq Names
    /\ f \in [DOMAIN f -> Manifest]

VARIABLES manifest,   \* state.modules: the manifests found, by identifier
          built,      \* state.modules_to_build
          layers,     \* state.abstraction_layers
          codecs,     \* state.codec_domains: modules whose codecs are listed
          stack,      \* activations of load_module, innermost last
          result      \* "running", "ok" or "failed"

vars == <<manifest, built, layers, codecs, stack, result>>

Known == DOMAIN manifest
IsFirst(n, S) == n \in S /\ \A k \in S : Rank[n] <= Rank[k]
IsLast(n, S) == n \in S /\ \A k \in S : Rank[n] >= Rank[k]

Stages == {"special", "ordinary", "layer", "codecs"}

Depth == Len(stack)
Top == stack[Depth]
Enter(n) == [module |-> n, stage |-> "special", todo |-> manifest[n].needs]

\* The innermost activation goes on as f.
Continue(f) == /\ stack' = [stack EXCEPT ![Depth] = f]
               /\ UNCHANGED built

\* The innermost activation goes on as f when the one for n has returned.
Call(f, n) == /\ stack' = Append([stack EXCEPT ![Depth] = f], Enter(n))
              /\ built' = built \cup {n}

\* load_module(n), unless n is already there.
Load(f, n) == IF n \in built THEN Continue(f) ELSE Call(f, n)

\* return false: every activation does the same.
Fail == /\ result' = "failed"
        /\ stack' = <<>>
        /\ UNCHANGED built

-----------------------------------------------------------------------------
Init == /\ manifest \in Manifests
        /\ built = {Root}
        /\ layers = {} /\ codecs = {}
        /\ stack = <<Enter(Root)>>
        /\ result = "running"

InLoop(stage) == Depth > 0 /\ Top.stage = stage
After(n) == [Top EXCEPT !.todo = @ \ {n}]

\* A turn of the first loop loads the special modules, a turn of the second
\* the others.
Require(stage, special) ==
  /\ InLoop(stage)
  /\ \E n \in Top.todo :
       /\ IsFirst(n, Top.todo)
       /\ \/ n \in built /\ Continue(After(n)) /\ UNCHANGED result
          \/ n \notin built \cup Known /\ Fail
          \/ /\ n \in Known \ built
             /\ IF manifest[n].special = special THEN Load(After(n), n) ELSE Continue(After(n))
             /\ UNCHANGED result
  /\ UNCHANGED <<manifest, layers, codecs>>

RequireSpecial == Require("special", TRUE)
RequireOrdinary == Require("ordinary", FALSE)

SecondLoop_Skipped ==   \* mutant: only special modules are loaded
  /\ InLoop("special")
  /\ Top.todo = {}
  /\ Continue([Top EXCEPT !.stage = "ordinary"])
  /\ UNCHANGED <<manifest, layers, codecs, result>>

SecondLoop == /\ InLoop("special")
              /\ Top.todo = {}
              /\ Continue([Top EXCEPT !.stage = "ordinary",
                                      !.todo = manifest[Top.module].needs])
              /\ UNCHANGED <<manifest, layers, codecs, result>>

Offered(m) == {manifest[m].offersLayer} \ {None}

\* The module's own layer counts as implemented only from here on.
Announce == /\ InLoop("ordinary")
            /\ Top.todo = {}
            /\ layers' = layers \cup Offered(Top.module)
            /\ Continue([Top EXCEPT !.stage = "layer"])
            /\ UNCHANGED <<manifest, codecs, result>>

Variants_Default(layer) ==   \* mutant: only default implementations are found
  {n \in Known : manifest[n].offersLayer = layer /\ manifest[n].suits /\ manifest[n].default}

\* Implementations of a layer that fit the target.
Variants(layer) == {n \in Known : manifest[n].offersLayer = layer /\ manifest[n].suits}

IsChosen_Last(n, layer) == IsLast(n, Variants(layer))   \* mutant: defaults are not preferred

\* The last default among the variants, else the first of them.
IsChosen(n, layer) ==
  LET defaults == {v \in Variants(layer) : manifest[v].default} IN
    IF defaults # {} THEN IsLast(n, defaults) ELSE IsFirst(n, Variants(layer))

\* state.modules that offer codecs of the domain and fit the target.
Providers(domain) ==
  {n \in Known : domain \in manifest[n].offersCodecs /\ manifest[n].suits}

ImplementLayer ==
  /\ InLoop("layer")
  /\ LET layer == manifest[Top.module].needsLayer
         f == [Top EXCEPT !.stage = "codecs",
                          !.todo = Providers(manifest[Top.module].needsCodecs)]
     IN \/ layer \in layers \cup {None} /\ Continue(f) /\ UNCHANGED result
        \/ layer \notin layers \cup {None} /\ Variants(layer) = {} /\ Fail
        \/ /\ layer \notin layers \cup {None}
           /\ \E n \in Variants(layer) : IsChosen(n, layer) /\ Load(f, n)
           /\ UNCHANGED result
  /\ UNCHANGED <<manifest, layers, codecs>>

RequireCodec == /\ InLoop("codecs")
                /\ \E n \in Top.todo : IsFirst(n, Top.todo) /\ Load(After(n), n)
                /\ UNCHANGED <<manifest, layers, codecs, result>>

Listed_Once(m) ==   \* mutant: a domain that is listed is not extended
  IF codecs = {} /\ manifest[m].offersCodecs # {} THEN {m} ELSE codecs

\* The domain lists with what the module defines.
Listed(m) == IF manifest[m].offersCodecs = {} THEN codecs ELSE codecs \cup {m}

\* The codecs the module defines are listed, and load_module returns true.
Return == /\ InLoop("codecs")
          /\ Top.todo = {}
          /\ codecs' = Listed(Top.module)
          /\ stack' = SubSeq(stack, 1, Depth - 1)
          /\ result' = IF Depth = 1 THEN "ok" ELSE result
          /\ UNCHANGED <<manifest, built, layers>>

Finished == result # "running" /\ UNCHANGED vars

Step == \/ RequireSpecial \/ RequireOrdinary \/ SecondLoop \/ Announce
        \/ ImplementLayer \/ RequireCodec \/ Return
Next == Step \/ Finished

Spec == Init /\ [][Next]_vars

-----------------------------------------------------------------------------
(* Properties.                                                             *)

Offers(layer) == {n \in built : manifest[n].offersLayer = layer}

Fitting(layer) == {n \in Known : manifest[n].suits /\ manifest[n].offersLayer = layer}
FittingCodecs(domain) == {n \in Known : manifest[n].suits /\ domain \in manifest[n].offersCodecs}

Complete(m) ==
  /\ manifest[m].needs \subseteq built
  /\ manifest[m].needsLayer # None => Offers(manifest[m].needsLayer) # {}
  /\ FittingCodecs(manifest[m].needsCodecs) \subseteq built

\* A build that goes ahead has everything: what its modules name, an
\* implementation of every layer they need and every codec that fits, even
\* where the requirements form cycles and a module is passed over because an
\* outer activation is still busy with it.
Closed == result = "ok" => \A m \in built : Complete(m)

\* The compiler is told exactly the codecs that are linked in.
CodecsListed ==
  result = "ok" => codecs = {m \in built : manifest[m].offersCodecs # {}}

\* The build is refused only when a name some module gives does not exist, or
\* a layer some module needs has no implementation for the target.
RefusedForCause ==
  result = "failed" =>
    \E m \in built :
      \/ ~(manifest[m].needs \subseteq Known)
      \/ manifest[m].needsLayer # None /\ Fitting(manifest[m].needsLayer) = {}

\* Required otherwise than as the implementation of a layer: by its name, or
\* for the codecs it defines.
Required(n) ==
  n = Root \/ \E m \in built \ {n} :
                n \in manifest[m].needs \/ n \in FittingCodecs(manifest[m].needsCodecs)

\* load_module itself never takes a second implementation of a layer, though a
\* layer is announced late and modules ask for it while an implementation is
\* still being loaded: of two that are linked, one was required directly.
OneImplementation ==
  \A layer \in Layers : \A n, k \in Offers(layer) : n # k => Required(n) \/ Required(k)

=============================================================================
