------------------------- MODULE ModuleLoaderProofs -------------------------
(***************************************************************************)
(* Theorems about load_module, for every set of manifests: any number of   *)
(* modules, requirements with or without cycles, any layers and domains;   *)
(* and one about the modules of this repository, for every project.        *)
(***************************************************************************)
EXTENDS MCRepository, SequenceTheorems, FiniteSetTheorems, TLAPS

Frames == [module : Names, stage : Stages, todo : SUBSET Names]

TypeOK == /\ manifest \in Manifests
          /\ built \subseteq Known
          /\ layers \subseteq Layers /\ codecs \subseteq Names
          /\ stack \in Seq(Frames)
          /\ result \in {"running", "ok", "failed"}

\* What an activation has seen to so far.
Progress(f) ==
  LET m == manifest[f.module]
      rest == m.needs \ f.todo
  IN /\ f.module \in built
     /\ f.stage \in {"special", "ordinary"} => f.todo \subseteq m.needs
     /\ f.stage = "special" => \A n \in rest : n \in Known /\ (manifest[n].special => n \in built)
     /\ f.stage = "ordinary" => /\ rest \subseteq built
                                /\ \A n \in m.needs : n \in Known /\ (manifest[n].special => n \in built)
     /\ f.stage \in {"layer", "codecs"} => m.needs \subseteq built
     /\ f.stage = "codecs" => /\ m.needsLayer # None => Offers(m.needsLayer) # {}
                              /\ f.todo \subseteq FittingCodecs(m.needsCodecs)
                              /\ FittingCodecs(m.needsCodecs) \subseteq built \cup f.todo

Activations == {stack[i] : i \in DOMAIN stack}
Active == {f.module : f \in Activations}
Listing(m) == manifest[m].offersCodecs # {} => m \in codecs

\* A module that no activation is busy with is complete and its codecs are
\* listed, whatever the outer activations have still to do.
Settled == result # "failed" => \A m \in built \ Active : Complete(m) /\ Listing(m)

\* What the lists of the build stand for.
ListsExact == /\ \A l \in layers : Offers(l) # {}
              /\ \A m \in codecs : m \in built /\ manifest[m].offersCodecs # {}

IInv == /\ TypeOK
        /\ \A f \in Activations : Progress(f)
        /\ Settled /\ ListsExact
        /\ result # "running" => stack = <<>>
        /\ RefusedForCause

-----------------------------------------------------------------------------
(* Lemmas.                                                                 *)

\* The activations outside the innermost one.
Outer == {stack[i] : i \in 1..Depth - 1}

LEMMA StackLemma ==
  ASSUME stack \in Seq(Frames), Depth > 0
  PROVE  /\ Depth \in Nat /\ Top \in Frames /\ Activations = Outer \cup {Top}
         /\ \A f \in Frames :
              stack' = [stack EXCEPT ![Depth] = f]
                => stack' \in Seq(Frames) /\ Activations' = Outer \cup {f}
         /\ \A f, g \in Frames :
              stack' = Append([stack EXCEPT ![Depth] = f], g)
                => stack' \in Seq(Frames) /\ Activations' = Outer \cup {f, g}
         /\ stack' = SubSeq(stack, 1, Depth - 1)
              => stack' \in Seq(Frames) /\ Activations' = Outer /\ (Depth = 1 => stack' = <<>>)
<1>1. /\ Depth \in Nat \ {0} /\ DOMAIN stack = 1..Depth /\ Top \in Frames
      /\ 1..Depth = (1..Depth - 1) \cup {Depth} /\ Depth \notin 1..Depth - 1
      /\ \A i \in 1..Depth : stack[i] \in Frames
  BY DEF Depth, Top
<1>2. Activations = Outer \cup {Top}
  BY <1>1 DEF Activations, Outer, Top
<1>3. ASSUME NEW f \in Frames
      PROVE  LET s == [stack EXCEPT ![Depth] = f] IN
               /\ s \in Seq(Frames) /\ Len(s) = Depth /\ DOMAIN s = 1..Depth
               /\ s[Depth] = f /\ \A i \in 1..Depth - 1 : s[i] = stack[i]
               /\ {s[i] : i \in 1..Depth} = Outer \cup {f}
  <2> DEFINE s == [stack EXCEPT ![Depth] = f]
  <2>1. s \in Seq(Frames) /\ Len(s) = Depth /\ DOMAIN s = 1..Depth
    BY <1>1 DEF Depth
  <2>2. s[Depth] = f /\ \A i \in 1..Depth - 1 : s[i] = stack[i]
    BY <1>1
  <2>3. {s[i] : i \in 1..Depth} = Outer \cup {f}
    BY <1>1, <2>2 DEF Outer
  <2>4. QED
    BY <2>1, <2>2, <2>3
<1>4. ASSUME NEW f \in Frames, stack' = [stack EXCEPT ![Depth] = f]
      PROVE  stack' \in Seq(Frames) /\ Activations' = Outer \cup {f}
  BY <1>3, <1>4 DEF Activations
<1>5. ASSUME NEW f \in Frames, NEW g \in Frames, stack' = Append([stack EXCEPT ![Depth] = f], g)
      PROVE  stack' \in Seq(Frames) /\ Activations' = Outer \cup {f, g}
  <2> DEFINE s == [stack EXCEPT ![Depth] = f]
  <2>1. /\ s \in Seq(Frames) /\ Len(s) = Depth
        /\ {s[i] : i \in 1..Depth} = Outer \cup {f}
    BY <1>3
  <2> HIDE DEF s
  <2>2. /\ Append(s, g) \in Seq(Frames) /\ DOMAIN Append(s, g) = 1..Depth + 1
        /\ \A i \in 1..Depth : Append(s, g)[i] = s[i]
        /\ Append(s, g)[Depth + 1] = g
    BY <1>1, <2>1
  <2>3. 1..Depth + 1 = (1..Depth) \cup {Depth + 1}
    BY <1>1
  <2>4. {Append(s, g)[i] : i \in 1..Depth + 1} = Outer \cup {f, g}
    <3>1. {Append(s, g)[i] : i \in 1..Depth + 1}
            = {Append(s, g)[i] : i \in 1..Depth} \cup {Append(s, g)[Depth + 1]}
      BY <2>3
    <3>2. {Append(s, g)[i] : i \in 1..Depth} = {s[i] : i \in 1..Depth}
      BY <2>2
    <3>3. QED
      BY <2>1, <2>2, <3>1, <3>2
  <2>5. stack' = Append(s, g)
    BY <1>5 DEF s
  <2>6. QED
    BY <2>2, <2>4, <2>5 DEF Activations
<1>6. ASSUME stack' = SubSeq(stack, 1, Depth - 1)
      PROVE  stack' \in Seq(Frames) /\ Activations' = Outer /\ (Depth = 1 => stack' = <<>>)
  <2> DEFINE s == SubSeq(stack, 1, Depth - 1)
  <2>1. /\ s \in Seq(Frames) /\ Len(s) = Depth - 1 /\ DOMAIN s = 1..Depth - 1
        /\ \A i \in 1..Depth - 1 : s[i] = stack[i]
    BY <1>1
  <2>2. {s[i] : i \in 1..Depth - 1} = Outer
    BY <2>1 DEF Outer
  <2> HIDE DEF s
  <2>3. Depth = 1 => s = <<>>
    BY <1>1, <2>1
  <2>4. stack' = s
    BY <1>6 DEF s
  <2>5. QED
    BY <2>1, <2>2, <2>3, <2>4 DEF Activations
<1>7. QED
  BY <1>1, <1>2, <1>4, <1>5, <1>6

LEMMA ManifestLemma ==
  ASSUME TypeOK
  PROVE  /\ Known \subseteq Names /\ Root \in Known
         /\ \A m \in Known : manifest[m] \in Manifest
BY ManifestsAssumption DEF TypeOK, Known

\* The innermost activation is of a module that is built.
LEMMA TopLemma ==
  ASSUME IInv, Depth > 0
  PROVE  /\ result = "running" /\ Top \in Frames /\ Progress(Top)
         /\ Top.module \in built /\ Top.module \in Known
         /\ manifest[Top.module] \in Manifest
<1>1. Top \in Frames /\ Top \in Activations
  BY StackLemma DEF IInv, TypeOK
<1>2. Progress(Top)
  BY <1>1 DEF IInv
<1>3. Top.module \in built
  BY <1>2 DEF Progress
<1>4. stack # <<>>
  BY DEF Depth
<1>5. QED
  BY <1>1, <1>2, <1>3, <1>4, ManifestLemma DEF IInv, TypeOK

\* A module that is built stays built, and what it sees to stays seen to.
LEMMA GrowLemma ==
  ASSUME UNCHANGED manifest, built \subseteq built'
  PROVE  /\ \A f \in Frames : Progress(f) => Progress(f)'
         /\ \A m \in built : Complete(m) => Complete(m)'
         /\ \A l \in Layers : Offers(l) # {} => Offers(l)' # {}
<1>1. \A l : Offers(l) \subseteq Offers(l)'
  BY DEF Offers
<1>2. Known' = Known /\ \A d : FittingCodecs(d)' = FittingCodecs(d)
  BY DEF Known, FittingCodecs
<1>3. ASSUME NEW f \in Frames, Progress(f) PROVE Progress(f)'
  BY <1>1, <1>2, <1>3 DEF Progress
<1>4. ASSUME NEW m \in built, Complete(m) PROVE Complete(m)'
  BY <1>1, <1>2, <1>4 DEF Complete
<1>5. QED
  BY <1>1, <1>3, <1>4

LEMMA EnterLemma ==
  ASSUME TypeOK, NEW n \in Known
  PROVE  /\ Enter(n) \in Frames /\ Enter(n).module = n /\ Enter(n).stage = "special"
         /\ Enter(n).todo = manifest[n].needs
BY ManifestLemma DEF Enter, Frames, Stages, Manifest

\* The innermost activation goes on, or calls load_module.
LEMMA ProceedLemma ==
  ASSUME IInv, Depth > 0, NEW f \in Frames, f.module = Top.module,
         Continue(f) \/ \E n \in Known : Call(f, n),
         Progress(f)', UNCHANGED <<manifest, codecs, result>>,
         layers' \subseteq Layers, \A l \in layers' : Offers(l)' # {}
  PROVE  IInv'
<1>1. /\ result = "running" /\ Activations = Outer \cup {Top} /\ Outer \subseteq Frames
      /\ Known' = Known
  BY TopLemma, StackLemma DEF IInv, TypeOK, Outer, Known, Depth
<1>2. CASE Continue(f)
  <2>1. built' = built /\ stack' \in Seq(Frames) /\ Activations' = Outer \cup {f}
    BY <1>2, StackLemma DEF Continue, IInv, TypeOK
  <2>2. Active' = Active
    BY <1>1, <2>1 DEF Active
  <2>3. \A g \in Activations' : Progress(g)'
    BY <1>1, <2>1, GrowLemma DEF IInv
  <2>4. Settled'
    BY <2>1, <2>2, GrowLemma DEF IInv, Settled, Listing
  <2>5. QED
    BY <1>1, <2>1, <2>3, <2>4 DEF IInv, TypeOK, ListsExact, RefusedForCause
<1>3. ASSUME NEW n \in Known, Call(f, n) PROVE IInv'
  <2>1. Enter(n) \in Frames /\ Enter(n).module = n
    BY EnterLemma DEF IInv
  <2>0. PICK e \in Frames : e = Enter(n)
    BY <2>1
  <2>2. /\ built' = built \cup {n} /\ stack' \in Seq(Frames)
        /\ Activations' = Outer \cup {f, e}
    BY <1>3, <2>0, StackLemma DEF Call, IInv, TypeOK
  <2>3. Active' = Active \cup {n}
    BY <1>1, <2>0, <2>1, <2>2 DEF Active
  <2>4. Progress(e)'
    BY <2>0, <2>2, EnterLemma DEF IInv, Progress
  <2>5. \A g \in Activations' : Progress(g)'
    BY <1>1, <2>2, <2>4, GrowLemma DEF IInv
  <2>6. Settled'
    BY <2>2, <2>3, GrowLemma DEF IInv, Settled, Listing
  <2>7. QED
    BY <1>1, <2>2, <2>5, <2>6 DEF IInv, TypeOK, ListsExact, RefusedForCause
<1>4. QED
  BY <1>2, <1>3

\* load_module returns false only for a cause.
LEMMA FailLemma ==
  ASSUME IInv, Fail, UNCHANGED <<manifest, layers, codecs>>, RefusedForCause'
  PROVE  IInv'
<1>1. built' = built /\ stack' = <<>> /\ result' = "failed" /\ Known' = Known
  BY DEF Fail, Known
<1>2. Activations' = {}
  BY <1>1 DEF Activations
<1>3. ListsExact'
  BY <1>1 DEF IInv, ListsExact, Offers
<1>4. stack' \in Seq(Frames)
  BY <1>1
<1>5. QED
  BY <1>1, <1>2, <1>3, <1>4 DEF IInv, TypeOK, Settled

-----------------------------------------------------------------------------
(* The steps.                                                              *)

\* A layer the lists have stays implemented.
LEMMA LayersLemma ==
  ASSUME IInv, UNCHANGED <<manifest, layers>>, built \subseteq built'
  PROVE  layers' \subseteq Layers /\ \A l \in layers' : Offers(l)' # {}
BY GrowLemma DEF IInv, TypeOK, ListsExact

LEMMA AfterLemma ==
  ASSUME Top \in Frames, NEW n
  PROVE  \E f \in Frames : /\ f = After(n) /\ f.module = Top.module /\ f.stage = Top.stage
                           /\ f.todo = Top.todo \ {n}
<1>1. After(n) = [module |-> Top.module, stage |-> Top.stage, todo |-> Top.todo \ {n}]
  BY DEF After, Frames
<1>2. [module |-> Top.module, stage |-> Top.stage, todo |-> Top.todo \ {n}] \in Frames
  BY DEF Frames
<1>3. QED
  BY <1>1, <1>2

LEMMA BuiltLemma ==
  ASSUME NEW f, Continue(f) \/ \E n \in Known : Call(f, n)
  PROVE  built \subseteq built'
BY DEF Continue, Call

\* A turn of the loops over the requirements.
LEMMA RequireStep ==
  ASSUME IInv, NEW stage, NEW special \in BOOLEAN,
         <<stage, special>> \in {<<"special", TRUE>>, <<"ordinary", FALSE>>},
         Require(stage, special)
  PROVE  IInv'
<1>1. /\ Depth > 0 /\ Top.stage = stage /\ UNCHANGED <<manifest, layers, codecs>>
      /\ \/ stage = "special" /\ special = TRUE
         \/ stage = "ordinary" /\ special = FALSE
  BY DEF Require, InLoop
<1>2. /\ result = "running" /\ Top \in Frames /\ Progress(Top)
      /\ Top.module \in built /\ Top.module \in Known /\ manifest[Top.module] \in Manifest
  BY <1>1, TopLemma
<1>3. PICK n \in Top.todo :
        \/ n \in built /\ Continue(After(n)) /\ UNCHANGED result
        \/ n \notin built \cup Known /\ Fail
        \/ /\ n \in Known \ built
           /\ IF manifest[n].special = special THEN Load(After(n), n) ELSE Continue(After(n))
           /\ UNCHANGED result
  BY DEF Require
<1>4. Top.todo \subseteq manifest[Top.module].needs
  BY <1>1, <1>2 DEF Progress
<1>5. CASE n \notin built \cup Known /\ Fail
  <2>1. result' = "failed" /\ built' = built /\ Known' = Known
    BY <1>1, <1>5 DEF Fail, Known
  <2>2. RefusedForCause'
    BY <1>1, <1>2, <1>4, <1>5, <2>1 DEF RefusedForCause
  <2>3. QED
    BY <1>1, <1>5, <2>2, FailLemma
<1>6. CASE ~(n \notin built \cup Known /\ Fail)
  <2>1. PICK f \in Frames : /\ f = After(n) /\ f.module = Top.module /\ f.stage = stage
                            /\ f.todo = Top.todo \ {n}
    BY <1>1, <1>2, AfterLemma
  <2>2. /\ Continue(f) \/ \E k \in Known : Call(f, k)
        /\ n \in Known /\ (manifest[n].special = special => n \in built')
        /\ UNCHANGED result
    BY <1>3, <1>6, <2>1 DEF Load, IInv, TypeOK, Continue, Call
  <2>3. built \subseteq built' /\ Known' = Known
    BY <1>1, <2>2, BuiltLemma DEF Known
  <2>4. manifest[n].special \in BOOLEAN
    BY <2>2, ManifestLemma DEF IInv, Manifest
  <2>5. Progress(f)'
    <3>1. CASE stage = "special" /\ special = TRUE
      BY <1>1, <1>2, <1>4, <2>1, <2>2, <2>3, <2>4, <3>1 DEF Progress
    <3>2. CASE stage = "ordinary" /\ special = FALSE
      BY <1>1, <1>2, <1>4, <2>1, <2>2, <2>3, <2>4, <3>2 DEF Progress
    <3>3. QED
      BY <1>1, <3>1, <3>2
  <2>6. QED
    BY <1>1, <2>1, <2>2, <2>3, <2>5, LayersLemma, ProceedLemma
<1>7. QED
  BY <1>5, <1>6

LEMMA SecondLoopStep == IInv /\ SecondLoop => IInv'
<1> SUFFICES ASSUME IInv, SecondLoop PROVE IInv'
  OBVIOUS
<1>1. /\ Depth > 0 /\ Top.stage = "special" /\ Top.todo = {}
      /\ UNCHANGED <<manifest, layers, codecs, result>>
  BY DEF SecondLoop, InLoop
<1>2. /\ Top \in Frames /\ Progress(Top) /\ Top.module \in Known
      /\ manifest[Top.module] \in Manifest
  BY <1>1, TopLemma
<1>3. PICK f \in Frames : /\ Continue(f) /\ f.module = Top.module /\ f.stage = "ordinary"
                          /\ f.todo = manifest[Top.module].needs
  <2>1. "ordinary" \in Stages /\ manifest[Top.module].needs \in SUBSET Names
    BY <1>2 DEF Stages, Manifest
  <2> DEFINE next == [Top EXCEPT !.stage = "ordinary", !.todo = manifest[Top.module].needs]
  <2>2. Continue(next)
    BY DEF SecondLoop
  <2>3. PICK t \in Frames, d \in SUBSET Names : t = Top /\ d = manifest[Top.module].needs
    BY <1>2, <2>1
  <2>4. next = [t EXCEPT !.stage = "ordinary", !.todo = d]
    BY <2>3
  <2>5. /\ [t EXCEPT !.stage = "ordinary", !.todo = d] \in Frames
        /\ [t EXCEPT !.stage = "ordinary", !.todo = d].module = t.module
        /\ [t EXCEPT !.stage = "ordinary", !.todo = d].stage = "ordinary"
        /\ [t EXCEPT !.stage = "ordinary", !.todo = d].todo = d
    BY <2>1 DEF Frames
  <2> HIDE DEF next
  <2>6. QED
    BY <2>2, <2>3, <2>4, <2>5
<1>4. built' = built /\ Known' = Known
  BY <1>1, <1>3 DEF Continue, Known
<1>5. Progress(f)'
  BY <1>1, <1>2, <1>3, <1>4 DEF Progress
<1>6. QED
  BY <1>1, <1>3, <1>4, <1>5, LayersLemma, ProceedLemma

LEMMA AnnounceStep == IInv /\ Announce => IInv'
<1> SUFFICES ASSUME IInv, Announce PROVE IInv'
  OBVIOUS
<1>1. /\ Depth > 0 /\ Top.stage = "ordinary" /\ Top.todo = {}
      /\ layers' = layers \cup Offered(Top.module)
      /\ UNCHANGED <<manifest, codecs, result>>
  BY DEF Announce, InLoop
<1>2. /\ Top \in Frames /\ Progress(Top) /\ Top.module \in Known /\ Top.module \in built
      /\ manifest[Top.module] \in Manifest
  BY <1>1, TopLemma
<1>3. PICK f \in Frames : /\ Continue(f) /\ f.module = Top.module /\ f.stage = "layer"
                          /\ f.todo = {}
  BY <1>1, <1>2 DEF Announce, Frames, Stages
<1>4. built' = built /\ Known' = Known
  BY <1>1, <1>3 DEF Continue, Known
<1>5. Progress(f)'
  BY <1>1, <1>2, <1>3, <1>4 DEF Progress
<1>6. Offered(Top.module) \subseteq Layers /\ \A l \in Offered(Top.module) : Offers(l) # {}
  BY <1>2 DEF Offered, Offers, Manifest
<1>7. layers' \subseteq Layers /\ \A l \in layers' : Offers(l)' # {}
  BY <1>1, <1>4, <1>6 DEF IInv, TypeOK, ListsExact, Offers
<1>8. QED
  BY <1>1, <1>3, <1>5, <1>7, ProceedLemma

LEMMA LayerStep == IInv /\ ImplementLayer => IInv'
<1> SUFFICES ASSUME IInv, ImplementLayer PROVE IInv'
  OBVIOUS
<1> DEFINE layer == manifest[Top.module].needsLayer
           domain == manifest[Top.module].needsCodecs
           next == [Top EXCEPT !.stage = "codecs", !.todo = Providers(domain)]
<1>1. /\ Depth > 0 /\ Top.stage = "layer" /\ UNCHANGED <<manifest, layers, codecs>>
      /\ \/ layer \in layers \cup {None} /\ Continue(next) /\ UNCHANGED result
         \/ layer \notin layers \cup {None} /\ Variants(layer) = {} /\ Fail
         \/ /\ layer \notin layers \cup {None}
            /\ \E n \in Variants(layer) : IsChosen(n, layer) /\ Load(next, n)
            /\ UNCHANGED result
  BY DEF ImplementLayer, InLoop
<1>2. /\ result = "running" /\ Top \in Frames /\ Progress(Top)
      /\ Top.module \in built /\ Top.module \in Known /\ manifest[Top.module] \in Manifest
  BY <1>1, TopLemma
<1>3. CASE layer \notin layers \cup {None} /\ Variants(layer) = {} /\ Fail
  <2>1. result' = "failed" /\ built' = built /\ Known' = Known /\ manifest' = manifest
    BY <1>1, <1>3 DEF Fail, Known
  <2>2. Fitting(layer) = {} /\ layer # None
    BY <1>3 DEF Fitting, Variants
  <2>3. PICK m \in built : m = Top.module
    BY <1>2
  <2>4. manifest'[m].needsLayer # None /\ Fitting(manifest[m].needsLayer)' = {}
    BY <2>1, <2>2, <2>3 DEF Fitting
  <2>5. RefusedForCause'
    BY <2>1, <2>4 DEF RefusedForCause
  <2>6. QED
    BY <1>1, <1>3, <2>5, FailLemma
<1>4. CASE ~(layer \notin layers \cup {None} /\ Variants(layer) = {} /\ Fail)
  <2>1. PICK f \in Frames : /\ f = next /\ f.module = Top.module /\ f.stage = "codecs"
                            /\ f.todo = FittingCodecs(domain)
    <3>1. Providers(domain) = FittingCodecs(domain) /\ FittingCodecs(domain) \subseteq Known
      BY DEF Providers, FittingCodecs
    <3>2. FittingCodecs(domain) \subseteq Names
      BY <3>1, ManifestLemma DEF IInv
    <3>3. "codecs" \in Stages
      BY DEF Stages
    <3>4. Providers(domain) \in SUBSET Names
      BY <3>1, <3>2
    <3>5. PICK t \in Frames, d \in SUBSET Names : t = Top /\ d = Providers(domain)
      BY <1>2, <3>4
    <3>6. next = [t EXCEPT !.stage = "codecs", !.todo = d]
      BY <3>5
    <3>7. /\ [t EXCEPT !.stage = "codecs", !.todo = d] \in Frames
          /\ [t EXCEPT !.stage = "codecs", !.todo = d].module = t.module
          /\ [t EXCEPT !.stage = "codecs", !.todo = d].stage = "codecs"
          /\ [t EXCEPT !.stage = "codecs", !.todo = d].todo = d
      BY <3>3 DEF Frames
    <3> HIDE DEF next
    <3>8. QED
      BY <3>1, <3>5, <3>6, <3>7
  <2>0. PICK l \in Layers \cup {None} : l = layer
    BY <1>2 DEF Manifest
  <2>2. /\ Continue(f) \/ \E k \in Known : Call(f, k)
        /\ l # None => Offers(l)' # {}
        /\ UNCHANGED result
    <3>1. CASE layer \in layers \cup {None} /\ Continue(next) /\ UNCHANGED result
      <4>1. l # None => Offers(l) # {}
        BY <2>0, <3>1 DEF IInv, ListsExact
      <4>2. Offers(l)' = Offers(l)
        BY <1>1, <3>1 DEF Offers, Continue
      <4>3. QED
        BY <2>1, <3>1, <4>1, <4>2
    <3>2. ASSUME NEW n \in Variants(layer), Load(next, n), UNCHANGED result
          PROVE  /\ Continue(f) \/ \E k \in Known : Call(f, k)
                 /\ Offers(l)' # {}
      <4>1. n \in Known /\ manifest[n].offersLayer = layer
        BY <3>2 DEF Variants
      <4>2. n \in built'
        BY <3>2 DEF Load, Continue, Call
      <4>3. n \in Offers(l)'
        BY <1>1, <2>0, <4>1, <4>2 DEF Offers
      <4>4. QED
        BY <2>1, <3>2, <4>1, <4>3 DEF Load
    <3>3. QED
      BY <1>1, <1>4, <3>1, <3>2
  <2>3. built \subseteq built' /\ Known' = Known
    BY <1>1, <2>2, BuiltLemma DEF Known
  <2>4. Progress(f)'
    <3>1. manifest'[f.module] = manifest[Top.module] /\ f.module \in built'
      BY <1>1, <1>2, <2>1, <2>3
    <3>2. manifest[Top.module].needs \subseteq built'
      BY <1>1, <1>2, <2>3 DEF Progress
    <3>3. f.todo = FittingCodecs(domain)
      BY <2>1
    <3>4. PICK d : d = domain
      OBVIOUS
    <3>5. FittingCodecs(d)' = FittingCodecs(d)
      BY <1>1, <2>3 DEF FittingCodecs
    <3>6. manifest'[f.module].needsCodecs = d /\ manifest'[f.module].needsLayer = l
      BY <2>0, <3>1, <3>4
    <3>7. FittingCodecs(manifest[f.module].needsCodecs)' = f.todo
      BY <3>3, <3>4, <3>5, <3>6
    <3>8. manifest'[f.module].needsLayer # None => Offers(manifest[f.module].needsLayer)' # {}
      BY <2>2, <3>6
    <3>9. QED
      BY <2>1, <3>1, <3>2, <3>3, <3>7, <3>8 DEF Progress
  <2>5. QED
    BY <1>1, <2>1, <2>2, <2>3, <2>4, LayersLemma, ProceedLemma
<1>5. QED
  BY <1>3, <1>4

LEMMA CodecStep == IInv /\ RequireCodec => IInv'
<1> SUFFICES ASSUME IInv, RequireCodec PROVE IInv'
  OBVIOUS
<1>1. /\ Depth > 0 /\ Top.stage = "codecs" /\ UNCHANGED <<manifest, layers, codecs, result>>
  BY DEF RequireCodec, InLoop
<1>2. Top \in Frames /\ Progress(Top) /\ Top.module \in built
  BY <1>1, TopLemma
<1>3. PICK n \in Top.todo : Load(After(n), n)
  BY DEF RequireCodec
<1>4. PICK f \in Frames : /\ f = After(n) /\ f.module = Top.module /\ f.stage = "codecs"
                          /\ f.todo = Top.todo \ {n}
  BY <1>1, <1>2, AfterLemma
<1>5. n \in Known
  BY <1>1, <1>2 DEF Progress, FittingCodecs
<1>6. (Continue(f) \/ \E k \in Known : Call(f, k)) /\ n \in built'
  BY <1>3, <1>4, <1>5 DEF Load, Continue, Call
<1>7. built \subseteq built' /\ Known' = Known
  BY <1>1, <1>6, BuiltLemma DEF Known
<1>8. Progress(f)'
  <2>1. PICK m \in built : m = Top.module
    BY <1>2
  <2>2. /\ manifest[m].needs \subseteq built
        /\ manifest[m].needsLayer # None => Offers(manifest[m].needsLayer) # {}
        /\ Top.todo \subseteq FittingCodecs(manifest[m].needsCodecs)
        /\ FittingCodecs(manifest[m].needsCodecs) \subseteq built \cup Top.todo
    BY <1>1, <1>2, <2>1 DEF Progress
  <2>3. /\ Offers(manifest[m].needsLayer) \subseteq Offers(manifest[m].needsLayer)'
        /\ FittingCodecs(manifest[m].needsCodecs)' = FittingCodecs(manifest[m].needsCodecs)
    BY <1>1, <1>7 DEF Offers, FittingCodecs
  <2>4. /\ manifest'[m].needs \subseteq built'
        /\ manifest'[m].needsLayer # None => Offers(manifest[m].needsLayer)' # {}
        /\ FittingCodecs(manifest[m].needsCodecs)' \subseteq built' \cup f.todo
        /\ f.todo \subseteq FittingCodecs(manifest[m].needsCodecs)' /\ m \in built'
    BY <1>1, <1>4, <1>6, <1>7, <2>2, <2>3
  <2>5. f.module = m
    BY <1>4, <2>1
  <2>6. QED
    BY <1>4, <2>4, <2>5 DEF Progress
<1>9. QED
  BY <1>1, <1>4, <1>6, <1>7, <1>8, LayersLemma, ProceedLemma

LEMMA ReturnStep == IInv /\ Return => IInv'
<1> SUFFICES ASSUME IInv, Return PROVE IInv'
  OBVIOUS
<1>1. /\ Depth > 0 /\ Top.stage = "codecs" /\ Top.todo = {} /\ codecs' = Listed(Top.module)
      /\ stack' = SubSeq(stack, 1, Depth - 1)
      /\ result' = (IF Depth = 1 THEN "ok" ELSE result)
      /\ UNCHANGED <<manifest, built, layers>>
  BY DEF Return, InLoop
<1>2. result = "running" /\ Progress(Top) /\ Top.module \in built
  BY <1>1, TopLemma
<1>3. /\ Activations = Outer \cup {Top} /\ Activations' = Outer
      /\ stack' \in Seq(Frames) /\ (Depth = 1 => stack' = <<>>)
  BY <1>1, StackLemma DEF IInv, TypeOK
<1>4. Active = Active' \cup {Top.module}
  BY <1>3 DEF Active
<1>5. PICK m \in built : m = Top.module
  BY <1>2
<1>6. Complete(m)
  BY <1>1, <1>2, <1>5 DEF Progress, Complete
<1>7. codecs' = (IF manifest[m].offersCodecs = {} THEN codecs ELSE codecs \cup {m})
  BY <1>1, <1>5 DEF Listed
<1>8. (\A f \in Frames : Progress(f) => Progress(f)') /\ (\A x \in built : Complete(x) => Complete(x)')
  BY <1>1, GrowLemma
<1>9. \A f \in Activations' : Progress(f)'
  <2>1. Outer \subseteq Frames
    BY <1>1, <1>3 DEF IInv, TypeOK, Outer, Depth
  <2>2. QED
    BY <1>3, <1>8, <2>1 DEF IInv
<1>10. Settled'
  <2>1. Listing(m)' /\ \A x \in built : Listing(x) => Listing(x)'
    BY <1>1, <1>7 DEF Listing
  <2>2. QED
    BY <1>1, <1>2, <1>4, <1>5, <1>6, <1>8, <2>1 DEF IInv, Settled
<1>11. ListsExact'
  BY <1>1, <1>7 DEF IInv, ListsExact, Offers
<1>12. codecs' \subseteq Names
  BY <1>7, ManifestLemma DEF IInv, TypeOK
<1>13. QED
  BY <1>1, <1>2, <1>3, <1>9, <1>10, <1>11, <1>12 DEF IInv, TypeOK, RefusedForCause, Known

-----------------------------------------------------------------------------
(* The theorems.                                                           *)

LEMMA InitInv == Init => IInv
<1> SUFFICES ASSUME Init PROVE IInv
  OBVIOUS
<1>1. /\ manifest \in Manifests /\ built = {Root} /\ layers = {} /\ codecs = {}
      /\ stack = <<Enter(Root)>> /\ result = "running"
  BY DEF Init
<1>2. Root \in Known /\ Known \subseteq Names /\ manifest[Root] \in Manifest
  BY <1>1, ManifestsAssumption DEF Known
<1>3. PICK e \in Frames : e = Enter(Root) /\ e.module = Root /\ e.stage = "special"
                          /\ e.todo = manifest[Root].needs
  <2>1. Enter(Root) = [module |-> Root, stage |-> "special", todo |-> manifest[Root].needs]
    BY DEF Enter
  <2>2. manifest[Root].needs \in SUBSET Names /\ Root \in Names
    BY <1>2 DEF Manifest
  <2>3. Enter(Root) \in Frames
    BY <2>1, <2>2 DEF Frames, Stages
  <2>4. QED
    BY <2>1, <2>3
<1>4. stack \in Seq(Frames) /\ Activations = {e}
  BY <1>1, <1>3 DEF Activations
<1>5. Progress(e)
  BY <1>1, <1>3 DEF Progress
<1>6. Active = {Root}
  BY <1>3, <1>4 DEF Active
<1>7. QED
  BY <1>1, <1>2, <1>4, <1>5, <1>6 DEF IInv, TypeOK, Settled, ListsExact, RefusedForCause

LEMMA StutterStep == IInv /\ UNCHANGED vars => IInv'
<1> SUFFICES ASSUME IInv, UNCHANGED vars PROVE IInv'
  OBVIOUS
<1>1. UNCHANGED <<manifest, built, layers, codecs, stack, result>>
  BY DEF vars
<1>2. Activations' = Activations /\ Known' = Known
  BY <1>1 DEF Activations, Known
<1>3. Activations \subseteq Frames
  BY DEF IInv, TypeOK, Activations
<1>4. \A f \in Activations' : Progress(f)'
  BY <1>1, <1>2, <1>3, GrowLemma DEF IInv
<1>5. Settled' /\ ListsExact'
  BY <1>1, <1>2, GrowLemma DEF IInv, Settled, Active, Listing, ListsExact, Offers
<1>6. RefusedForCause'
  BY <1>1, <1>2 DEF IInv, RefusedForCause, Fitting
<1>7. QED
  BY <1>1, <1>2, <1>4, <1>5, <1>6 DEF IInv, TypeOK

LEMMA StepInv == IInv /\ [Next]_vars => IInv'
<1>1. IInv /\ RequireSpecial => IInv'
  BY RequireStep DEF RequireSpecial
<1>2. IInv /\ RequireOrdinary => IInv'
  BY RequireStep DEF RequireOrdinary
<1>3. QED
  BY <1>1, <1>2, SecondLoopStep, AnnounceStep, LayerStep, CodecStep, ReturnStep, StutterStep
     DEF Next, Step, Finished

\* The inductive invariant holds however deep the recursion goes.
THEOREM Invariant == Spec => []IInv
BY InitInv, StepInv, PTL DEF Spec

\* The lists of the build and its stack of activations keep their types.
THEOREM TypeCorrect == Spec => []TypeOK
BY Invariant, PTL DEF IInv

\* When load_module has returned true every module of the build has what it
\* requires, cycles among the requirements or not.
THEOREM ClosedCorrect == Spec => []Closed
<1>1. IInv => Closed
  <2> SUFFICES ASSUME IInv, result = "ok" PROVE \A m \in built : Complete(m)
    BY DEF Closed
  <2>1. Active = {}
    BY DEF IInv, Active, Activations
  <2>2. QED
    BY <2>1 DEF IInv, Settled
<1>2. QED
  BY <1>1, Invariant, PTL

\* The codecs the compiler is told of are those of the modules of the build.
THEOREM CodecsCorrect == Spec => []CodecsListed
<1>1. IInv => CodecsListed
  <2> SUFFICES ASSUME IInv, result = "ok"
               PROVE  codecs = {m \in built : manifest[m].offersCodecs # {}}
    BY DEF CodecsListed
  <2>1. Active = {}
    BY DEF IInv, Active, Activations
  <2>2. QED
    BY <2>1 DEF IInv, Settled, Listing, ListsExact
<1>2. QED
  BY <1>1, Invariant, PTL

\* load_module returns false only for a name that does not exist or a layer
\* that nothing implements for the target.
THEOREM RefusalCorrect == Spec => []RefusedForCause
BY Invariant, PTL DEF IInv

-----------------------------------------------------------------------------
(* What is linked and why.                                                 *)

\* The module m of a build gives load_module a reason to load n.
Asks(m, n) == \/ n \in manifest[m].needs
              \/ manifest[m].needsLayer # None /\ IsChosen(n, manifest[m].needsLayer)
              \/ n \in FittingCodecs(manifest[m].needsCodecs)

\* Nothing is linked that another module of the build has not asked for.
OnlyAsked == \A n \in built : n = Root \/ \E m \in built \ {n} : Asks(m, n)

\* A step adds to the build at most a module the innermost activation asks for.
LEMMA AddedLemma ==
  ASSUME IInv, Next
  PROVE  /\ UNCHANGED manifest
         /\ \/ built' = built
            \/ Depth > 0 /\ \E n : built' = built \cup {n} /\ n \notin built /\ Asks(Top.module, n)
<1>1. ASSUME NEW f, NEW n, Load(f, n)
      PROVE  built' = built \/ (built' = built \cup {n} /\ n \notin built)
  BY <1>1 DEF Load, Continue, Call
<1>2. ASSUME NEW stage \in {"special", "ordinary"}, NEW special, Require(stage, special)
      PROVE  \/ built' = built
             \/ \E n : built' = built \cup {n} /\ n \notin built /\ Asks(Top.module, n)
  <2>1. Depth > 0 /\ Top.stage = stage
    BY <1>2 DEF Require, InLoop
  <2>2. Top.todo \subseteq manifest[Top.module].needs
    BY <2>1, TopLemma DEF Progress
  <2>3. PICK n \in Top.todo :
          \/ n \in built /\ Continue(After(n)) /\ UNCHANGED result
          \/ n \notin built \cup Known /\ Fail
          \/ /\ n \in Known \ built
             /\ IF manifest[n].special = special THEN Load(After(n), n) ELSE Continue(After(n))
             /\ UNCHANGED result
    BY <1>2 DEF Require
  <2>4. built' = built \/ (built' = built \cup {n} /\ n \notin built)
    BY <1>1, <2>3 DEF Continue, Fail
  <2>5. QED
    BY <2>2, <2>3, <2>4 DEF Asks
<1>3. CASE RequireSpecial \/ RequireOrdinary
  <2>1. UNCHANGED manifest /\ Depth > 0
    BY <1>3 DEF RequireSpecial, RequireOrdinary, Require, InLoop
  <2>2. QED
    BY <1>2, <1>3, <2>1 DEF RequireSpecial, RequireOrdinary
<1>4. CASE SecondLoop \/ Announce \/ Return \/ Finished
  BY <1>4 DEF SecondLoop, Announce, Return, Finished, vars, Continue
<1>5. CASE ImplementLayer
  <2> DEFINE layer == manifest[Top.module].needsLayer
             next == [Top EXCEPT !.stage = "codecs",
                                 !.todo = Providers(manifest[Top.module].needsCodecs)]
  <2>1. UNCHANGED manifest /\ Depth > 0
    BY <1>5 DEF ImplementLayer, InLoop
  <2>2. \/ Continue(next) \/ Fail
        \/ layer # None /\ \E n \in Variants(layer) : IsChosen(n, layer) /\ Load(next, n)
    BY <1>5 DEF ImplementLayer
  <2>3. CASE Continue(next) \/ Fail
    BY <2>1, <2>3 DEF Continue, Fail
  <2>4. ASSUME layer # None, NEW n \in Variants(layer), IsChosen(n, layer), Load(next, n)
        PROVE  built' = built \/ (built' = built \cup {n} /\ n \notin built /\ Asks(Top.module, n))
    <3>1. Asks(Top.module, n)
      BY <2>4 DEF Asks
    <3>2. QED
      BY <1>1, <2>4, <3>1
  <2>5. QED
    BY <2>1, <2>2, <2>3, <2>4
<1>6. CASE RequireCodec
  <2>1. UNCHANGED manifest /\ Depth > 0 /\ Top.stage = "codecs"
    BY <1>6 DEF RequireCodec, InLoop
  <2>2. PICK n \in Top.todo : Load(After(n), n)
    BY <1>6 DEF RequireCodec
  <2>3. Asks(Top.module, n)
    BY <2>1, <2>2, TopLemma DEF Progress, Asks
  <2>4. QED
    BY <1>1, <2>1, <2>2, <2>3
<1>7. QED
  BY <1>3, <1>4, <1>5, <1>6 DEF Next, Step

LEMMA AskedStep == IInv /\ OnlyAsked /\ [Next]_vars => OnlyAsked'
<1> SUFFICES ASSUME IInv, OnlyAsked, [Next]_vars PROVE OnlyAsked'
  OBVIOUS
<1>1. /\ UNCHANGED manifest
      /\ \/ built' = built
         \/ Depth > 0 /\ \E n : built' = built \cup {n} /\ n \notin built /\ Asks(Top.module, n)
  BY AddedLemma DEF vars
<1>2. Known' = Known
  BY <1>1 DEF Known
<1>3. \A m, n : Asks(m, n)' = Asks(m, n)
  BY <1>1, <1>2 DEF Asks, IsChosen, Variants, IsFirst, IsLast, FittingCodecs
<1>4. CASE built' = built
  BY <1>3, <1>4 DEF OnlyAsked
<1>5. ASSUME NEW n, Depth > 0, built' = built \cup {n}, n \notin built, Asks(Top.module, n)
      PROVE  OnlyAsked'
  <2>1. Top.module \in built \ {n}
    BY <1>5, TopLemma
  <2>2. QED
    BY <1>3, <1>5, <2>1 DEF OnlyAsked
<1>6. QED
  BY <1>1, <1>4, <1>5

\* A build takes in a module only because another module of it requires it,
\* by name, as the chosen implementation of a layer, or for its codecs.
THEOREM AskedCorrect == Spec => []OnlyAsked
<1>1. Init => OnlyAsked
  BY DEF Init, OnlyAsked
<1>2. QED
  BY <1>1, AskedStep, Invariant, PTL DEF Spec

\* The choice of an implementation is unique.
LEMMA ChosenLemma ==
  ASSUME IInv, NEW layer, NEW n, NEW k, IsChosen(n, layer), IsChosen(k, layer)
  PROVE  n = k
<1>1. n \in Known /\ k \in Known /\ Known \subseteq Names
  BY ManifestsAssumption DEF IsChosen, IsLast, IsFirst, Variants, IInv, TypeOK, Known
<1>2. Rank[n] <= Rank[k] /\ Rank[k] <= Rank[n]
  BY DEF IsChosen, IsLast, IsFirst
<1>3. QED
  BY <1>1, <1>2, RankAssumption

\* A module that nothing requires directly is the choice for its layer.
LEMMA UnrequiredLemma ==
  ASSUME IInv, OnlyAsked, NEW layer \in Layers, NEW n \in Offers(layer), ~Required(n)
  PROVE  IsChosen(n, layer)
<1>1. n \in built /\ manifest[n].offersLayer = layer /\ n # Root
  BY DEF Offers, Required
<1>2. PICK m \in built \ {n} : Asks(m, n)
  BY <1>1 DEF OnlyAsked
<1>3. IsChosen(n, manifest[m].needsLayer)
  BY <1>1, <1>2 DEF Asks, Required
<1>4. manifest[n].offersLayer = manifest[m].needsLayer
  BY <1>3 DEF IsChosen, IsLast, IsFirst, Variants
<1>5. QED
  BY <1>1, <1>3, <1>4

LEMMA UniqueLemma == IInv /\ OnlyAsked => OneImplementation
  BY ChosenLemma, UnrequiredLemma DEF OneImplementation

\* Whatever the manifests say, and though a layer is announced late, a second
\* implementation of a layer is linked only when one of the two was required
\* by its name or for its codecs.
THEOREM ChosenCorrect == Spec => []OneImplementation
<1>1. IInv /\ OnlyAsked => OneImplementation
  BY UniqueLemma
<1>2. QED
  BY <1>1, Invariant, AskedCorrect, PTL

-----------------------------------------------------------------------------
(* The modules of this repository.                                         *)

\* No module but the project names the second implementation of fenestrae,
\* and each other layer has one implementation.
LEMMA ImplementationLemma ==
  /\ \A n : "fenestrae-nullae" \notin Needs(n)
  /\ \A n \in RepositoryNames :
       Implementation[n] # None =>
         \/ n \in {"fenestrae-linux-x11", "fenestrae-nullae"} /\ Implementation[n] = "fenestrae"
         \/ n = "auxilia-linux" /\ Implementation[n] = "auxilia"
         \/ n = "communicatio-linux" /\ Implementation[n] = "communicatio"
         \/ n = "consolatorium-linux" /\ Implementation[n] = "consolatorium"
         \/ n = "cor-linux" /\ Implementation[n] = "cor"
         \/ n = "energia-linux" /\ Implementation[n] = "energia"
         \/ n = "graphica-linux" /\ Implementation[n] = "graphica"
         \/ n = "imprimitio-linux" /\ Implementation[n] = "imprimitio"
  /\ {"fenestrae-linux-x11", "fenestrae-nullae"} \subseteq RepositoryNames
  /\ \A n \in {"fenestrae-linux-x11", "fenestrae-nullae"} : Implementation[n] = "fenestrae"
<1>1. \A n : "fenestrae-nullae" \notin Needs(n)
  BY DEF Needs
<1>2. \A n \in RepositoryNames :
       Implementation[n] # None =>
         \/ n \in {"fenestrae-linux-x11", "fenestrae-nullae"} /\ Implementation[n] = "fenestrae"
         \/ n = "auxilia-linux" /\ Implementation[n] = "auxilia"
         \/ n = "communicatio-linux" /\ Implementation[n] = "communicatio"
         \/ n = "consolatorium-linux" /\ Implementation[n] = "consolatorium"
         \/ n = "cor-linux" /\ Implementation[n] = "cor"
         \/ n = "energia-linux" /\ Implementation[n] = "energia"
         \/ n = "graphica-linux" /\ Implementation[n] = "graphica"
         \/ n = "imprimitio-linux" /\ Implementation[n] = "imprimitio"
  BY DEF Implementation
<1>3. Order[18] = "fenestrae-linux-x11" /\ Order[19] = "fenestrae-nullae" /\ {18, 19} \subseteq DOMAIN Order
  BY DEF Order
<1>4. {"fenestrae-linux-x11", "fenestrae-nullae"} \subseteq RepositoryNames
  BY <1>3 DEF RepositoryNames
<1>5. \A n \in {"fenestrae-linux-x11", "fenestrae-nullae"} : Implementation[n] = "fenestrae"
  BY <1>4 DEF Implementation
<1>6. QED
  BY <1>1, <1>2, <1>4, <1>5

\* What the manifests of this repository say, the project's aside.
LEMMA RepositoryLemma ==
  ASSUME Repository, TypeOK, Known = RepositoryNames
  PROVE  \A n \in Known :
           /\ manifest[n].offersLayer = Implementation[n]
           /\ manifest[n].default <=> Implementation[n] # None /\ n # "fenestrae-nullae"
           /\ manifest[n].suits = TRUE
           /\ n # Root => "fenestrae-nullae" \notin manifest[n].needs
           /\ "fenestrae-nullae" \in Known => manifest["fenestrae-nullae"].offersCodecs = {}
<1>1. manifest = [Modules EXCEPT ![Project].needs = manifest[Project].needs]
  BY DEF Repository, TypeOK, Known
<1>2. PICK needs : needs = manifest[Project].needs
  OBVIOUS
<1>3. manifest = [Modules EXCEPT ![Project].needs = needs]
  BY <1>1, <1>2
<1>4. ASSUME NEW n \in RepositoryNames
      PROVE  /\ manifest[n].offersLayer = Implementation[n]
             /\ manifest[n].default = (Implementation[n] # None /\ n # "fenestrae-nullae")
             /\ manifest[n].suits = TRUE
             /\ manifest[n].needs = IF n = Project THEN needs ELSE Needs(n)
             /\ manifest[n].offersCodecs = IF n \in {"codices", "codices-linux", "formatio-imaginum"}
                                            THEN {"imagines"} ELSE {}
  BY <1>3 DEF Modules
<1>5. ASSUME NEW n \in RepositoryNames, n # Root PROVE "fenestrae-nullae" \notin manifest[n].needs
  <2>1. n # Project
    BY <1>5 DEF Repository
  <2>2. manifest[n].needs = Needs(n)
    BY <1>4, <2>1
  <2>3. "fenestrae-nullae" \notin Needs(n)
    BY ImplementationLemma
  <2>4. QED
    BY <2>2, <2>3
<1>6. "fenestrae-nullae" \in RepositoryNames => manifest["fenestrae-nullae"].offersCodecs = {}
  BY <1>4
<1>7. QED
  BY <1>4, <1>5, <1>6

\* Nobody but a project that names it asks for the second implementation of
\* fenestrae.
LEMMA NullaeLemma ==
  ASSUME Repository, IInv, Known = RepositoryNames, NEW m \in Known,
         Asks(m, "fenestrae-nullae")
  PROVE  "fenestrae-nullae" \in manifest[Root].needs
<1> DEFINE nullae == "fenestrae-nullae"
           layer == manifest[m].needsLayer
<1> SUFFICES ASSUME nullae \notin manifest[Root].needs PROVE FALSE
  OBVIOUS
<1>1. nullae \notin manifest[m].needs
  BY RepositoryLemma DEF IInv
<1>2. nullae \notin FittingCodecs(manifest[m].needsCodecs)
  BY RepositoryLemma DEF IInv, FittingCodecs
<1>3. layer # None => ~IsChosen(nullae, layer)
  <2> SUFFICES ASSUME layer # None, IsChosen(nullae, layer) PROVE FALSE
    OBVIOUS
  <2> DEFINE defaults == {v \in Variants(layer) : manifest[v].default}
  <2>1. nullae \in Variants(layer)
    BY DEF IsChosen, IsLast, IsFirst
  <2>2. layer = "fenestrae" /\ nullae \in Known
    BY <2>1, RepositoryLemma, ImplementationLemma DEF Variants, IInv
  <2>3. "fenestrae-linux-x11" \in defaults
    BY <2>2, RepositoryLemma, ImplementationLemma DEF Variants, IInv
  <2>4. nullae \in defaults
    BY <2>3 DEF IsChosen, IsLast
  <2>5. QED
    BY <2>2, <2>4, RepositoryLemma DEF IInv
<1>4. QED
  BY <1>1, <1>2, <1>3 DEF Asks

\* At most one of the modules that are asked for implements a layer.
LEMMA OneLemma == Repository /\ IInv /\ OnlyAsked => LinkedOnce
<1> SUFFICES ASSUME Repository, IInv, OnlyAsked, Known = RepositoryNames, NEW layer \in Layers,
                    ~(layer = "fenestrae" /\ "fenestrae-nullae" \in manifest[Root].needs)
             PROVE  Cardinality(Offers(layer)) <= 1
  BY UniqueLemma DEF LinkedOnce
<1>1. ASSUME "fenestrae-nullae" \in built PROVE "fenestrae-nullae" \in manifest[Root].needs
  <2>1. Root # "fenestrae-nullae"
    BY DEF Repository, Project
  <2>2. QED
    BY <1>1, <2>1, NullaeLemma DEF OnlyAsked, IInv, TypeOK
<1>2. \A n \in Offers(layer) : n \in built /\ n \in Known /\ Implementation[n] = layer
  BY RepositoryLemma DEF Offers, IInv, TypeOK
<1>3. layer # None
  BY NoneAssumption
<1>4. layer = "fenestrae" => "fenestrae-nullae" \notin Offers(layer)
  BY <1>1, <1>2
<1>5. ASSUME NEW n \in Offers(layer), NEW k \in Offers(layer) PROVE n = k
  BY <1>2, <1>3, <1>4, ImplementationLemma
<1>6. CASE Offers(layer) = {}
  BY <1>6, FS_EmptySet
<1>7. ASSUME NEW n \in Offers(layer) PROVE Cardinality(Offers(layer)) <= 1
  <2>1. Offers(layer) = {n}
    BY <1>5
  <2>2. Cardinality({n}) = 1
    BY FS_Singleton
  <2>3. QED
    BY <2>1, <2>2
<1>8. QED
  BY <1>6, <1>7

\* A build with the modules of this repository links at most one
\* implementation of each layer, whatever its project names, but for a project
\* that names the second implementation of fenestrae itself.
THEOREM LinkedCorrect == ASSUME Repository PROVE Spec => []LinkedOnce
<1>1. IInv /\ OnlyAsked => LinkedOnce
  BY OneLemma
<1>2. QED
  BY <1>1, Invariant, AskedCorrect, PTL

=============================================================================
