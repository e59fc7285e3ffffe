-------------------------- MODULE Surfaces_proofs --------------------------
(***************************************************************************)
(* What the events of a surface said adds up to what its getters return,   *)
(* and its scale is the one its outputs call for, for any number of        *)
(* surfaces, outputs, sizes and scales.                                    *)
(***************************************************************************)
EXTENDS Surfaces, FiniteSetTheorems, FunctionTheorems, WellFoundedInduction, TLAPS

Knowledge == [size : AllSizes, scale : Scales \cup {None}, occluded : {"visible", "hidden"}]

\* What a consumer that knew t knows after the events n.
Tell(t, n) ==
  [size |-> IF n.resized = None THEN t.size ELSE n.resized,
   scale |-> IF n.scale = None THEN t.scale ELSE n.scale,
   occluded |-> IF n.occluded = "same" THEN t.occluded ELSE n.occluded]

\* The consumer knows the scale and the occlusion; the size it knows is the one
\* the last configure emitted.
Known(r, t) ==
  /\ r \in States /\ t \in Knowledge
  /\ IF t.scale = None THEN r.scale_factor = 120 ELSE t.scale = r.scale_factor
  /\ t.size = r.last_emitted_size
  /\ t.occluded = IF r.suspended THEN "hidden" ELSE "visible"

Coherent(r, outs) ==
  r.scale_factor = Resolved(r, outs) \/ \E o \in r.touched : ~outs[o].ready

\* Once it was configured, the viewport covers the size emitted last.
Drawable(s) ==
  st[s].viewport # None /\ (Preferred[s] > 0 \/ s \in LayerSurfaces) =>
    st[s].last_emitted_size > 0 /\ st[s].viewport = st[s].last_emitted_size

\* Outside a configure sequence the size emitted last is the current one; a
\* surface that was dropped in the middle of one is never built again.
Settled(s) ==
  /\ s \in (alive \cup (Surfaces \ built)) \ configuring =>
       st[s].current_size = st[s].last_emitted_size
  /\ s \in configuring /\ Preferred[s] > 0 => st[s].current_size > 0
  /\ Drawable(s)

SetsOK ==
  /\ alive \subseteq built /\ built \subseteq Surfaces
  /\ configuring \subseteq alive \cap Toplevels
  /\ st \in [Surfaces -> States] /\ told \in [Surfaces -> Knowledge]
  /\ outputs \in [Outputs -> OutputStates]

IInv ==
  /\ SetsOK
  /\ \A s \in Surfaces : Known(st[s], told[s])
  /\ \A s \in Surfaces : Coherent(st[s], outputs)
  /\ \A s \in Surfaces : Settled(s)
-----------------------------------------------------------------------------
(* Scales.                                                                 *)

HasMax(T) == \E x \in T : \A y \in T : x >= y

LEMMA OutputScaleTyped == OutputScales \subseteq Int
  <1>1. Factors \subseteq Int
    BY SurfacesAssumption
  <1>2. OutputScales \subseteq Factors \cup {1}
    BY Zenon DEF OutputScales
  <1> QED BY <1>1, <1>2

\* A finite set of integers that is not empty has a largest member.
LEMMA MaxExists ==
  ASSUME NEW S \in SUBSET Int, IsFiniteSet(S), S # {}
  PROVE  HasMax(S)
  <1> DEFINE Bad == {n \in Nat : \E T \in SUBSET S :
                       T # {} /\ IsFiniteSet(T) /\ Cardinality(T) = n /\ ~HasMax(T)}
  <1> SUFFICES ASSUME ~HasMax(S) PROVE FALSE
    OBVIOUS
  <1>1. Cardinality(S) \in Bad
    BY FS_CardinalityType
  <1>2. PICK n \in Bad : \A m \in Bad : <<m, n>> \notin OpToRel(<, Nat)
    BY <1>1, NatLessThanWellFounded, WFMin
  <1>3. PICK T \in SUBSET S :
             T # {} /\ IsFiniteSet(T) /\ Cardinality(T) = n /\ ~HasMax(T)
    BY <1>2
  <1>4. PICK x \in T : TRUE
    BY <1>3
  <1> DEFINE U == T \ {x}
  <1>5. IsFiniteSet(U) /\ Cardinality(U) = n - 1 /\ Cardinality(U) \in Nat
    BY <1>3, <1>4, FS_RemoveElement, FS_CardinalityType
  <1>6. n \in Nat /\ ~(n - 1 \in Bad)
    <2>1. n \in Nat /\ Bad \subseteq Nat
      BY <1>2
    <2> HIDE DEF Bad
    <2>2. \A m \in Bad : ~(m < n)
      BY <1>2, <2>1 DEF OpToRel
    <2> QED BY <2>1, <2>2
  <1>7. CASE U = {}
    <2>1. \A y \in T : y = x
      BY <1>7
    <2>2. x >= x
      BY <1>4
    <2> QED BY <1>3, <1>4, <2>1, <2>2 DEF HasMax
  <1>8. CASE U # {}
    <2>1. HasMax(U)
      BY <1>3, <1>5, <1>6, <1>8
    <2>2. PICK y \in U : \A z \in U : y >= z
      BY <2>1 DEF HasMax
    <2>3. x \in Int /\ y \in Int /\ T \subseteq Int
      BY <1>4, <2>2
    <2>4. CASE x >= y
      <3>1. \A z \in T : x >= z
        BY <2>2, <2>3, <2>4
      <3> QED BY <1>3, <1>4, <3>1 DEF HasMax
    <2>5. CASE y >= x
      <3>1. \A z \in T : y >= z
        BY <2>2, <2>5
      <3> QED BY <1>3, <2>2, <3>1 DEF HasMax
    <2> QED BY <2>3, <2>4, <2>5
  <1> QED BY <1>7, <1>8

\* The rule for the scale of a surface gives a scale.
LEMMA ResolvedTyped ==
  ASSUME NEW r \in States, NEW outs \in [Outputs -> OutputStates]
  PROVE  Resolved(r, outs) \in Scales
  <1> DEFINE scales == {outs[o].scale : o \in r.touched}
             f == [o \in r.touched |-> outs[o].scale]
  <1>1. CASE r.fractional # None
    BY <1>1 DEF Resolved, States, Scales
  <1>2. CASE r.fractional = None /\ r.touched = {}
    <2>1. 1 \in OutputScales
      BY DEF OutputScales
    <2> QED BY <1>2, <2>1 DEF Resolved, Scales
  <1>3. CASE r.fractional = None /\ r.touched # {}
    <2>1. r.touched \subseteq Outputs /\ IsFiniteSet(r.touched)
      BY SurfacesAssumption, FS_Subset DEF States
    <2>2. f \in Surjection(r.touched, scales)
      BY Fun_IsSurj
    <2>3. IsFiniteSet(scales) /\ scales # {}
      BY <1>3, <2>1, <2>2, FS_Surjection
    <2>4. scales \subseteq OutputScales /\ OutputScales \subseteq Int
      BY <2>1, OutputScaleTyped DEF OutputStates
    <2>5. HasMax(scales)
      BY <2>3, <2>4, MaxExists
    <2>6. Max(scales) \in scales
      BY <2>5 DEF HasMax, Max
    <2>7. Resolved(r, outs) = 120 * Max(scales)
      BY <1>3 DEF Resolved
    <2> QED BY <2>4, <2>6, <2>7 DEF Scales
  <1> QED BY <1>1, <1>2, <1>3

\* It looks at the scales of the outputs touched and at nothing else of them.
LEMMA ResolvedSame ==
  ASSUME NEW r, NEW q, NEW outs, NEW news_,
         q.fractional = r.fractional, q.touched = r.touched,
         \A o \in r.touched : news_[o].scale = outs[o].scale
  PROVE  Resolved(q, news_) = Resolved(r, outs)
  <1>1. {news_[o].scale : o \in q.touched} = {outs[o].scale : o \in r.touched}
    OBVIOUS
  <1> QED BY <1>1 DEF Resolved

\* No scale and no size is taken for none.
LEMMA NotNone ==
  /\ \A x \in Scales : x # None /\ x \in Int
  /\ \A z \in AllSizes : z # None /\ z \in Nat
  <1>1. \A f \in Fractions : f \in Int /\ f # None
    BY SurfacesAssumption DEF None
  <1>2. \A x \in Scales : x # None /\ x \in Int
    <2>1. \A n \in OutputScales : 120 * n \in Int /\ 120 * n # -1
      BY OutputScaleTyped
    <2> QED BY <1>1, <2>1 DEF Scales, None
  <1>3. \A z \in AllSizes : z # None /\ z \in Nat
    BY SurfacesAssumption DEF AllSizes, None
  <1> QED BY <1>2, <1>3
-----------------------------------------------------------------------------
(* What one surface's events tell.                                         *)

LEMMA PushTells ==
  ASSUME NEW n, Push(n)
  PROVE  /\ news' = n /\ told' = [s \in Surfaces |-> Tell(told[s], n[s])]
  BY DEF Push, Tell

LEMMA SilenceTells ==
  ASSUME NEW t \in Knowledge
  PROVE  Tell(t, Silence) = t
  BY DEF Tell, Silence, Knowledge, None

\* A new scale is told, an old one is not told again.
LEMMA ScaleKnown ==
  ASSUME NEW r, NEW q \in States, NEW t, Known(r, t),
         q.suspended = r.suspended, q.last_emitted_size = r.last_emitted_size
  PROVE  Known(q, Tell(t, ScaleNews(r, q)))
  <1>1. q.scale_factor \in Scales /\ q.scale_factor # None
    BY NotNone DEF States
  <1>2. CASE r.scale_factor = q.scale_factor
    BY <1>2, SilenceTells DEF ScaleNews, Known
  <1>3. CASE r.scale_factor # q.scale_factor
    <2>1. Tell(t, ScaleNews(r, q)) = [t EXCEPT !.scale = q.scale_factor]
      BY <1>1, <1>3 DEF ScaleNews, Silence, Tell, Known, Knowledge, None
    <2> QED BY <1>1, <2>1 DEF Known, Knowledge
  <1> QED BY <1>2, <1>3

LEMMA ScaleQuiet ==
  ASSUME NEW r, NEW q, NEW t, Known(r, t)
  PROVE  LET n == ScaleNews(r, q)
         IN n.resized = None /\ ~n.redraw /\ (n.scale # None => n.scale # t.scale)
  <1>1. t.scale \in {None, r.scale_factor}
    BY DEF Known
  <1>2. CASE r.scale_factor = q.scale_factor
    BY <1>2 DEF ScaleNews, Silence
  <1>3. CASE r.scale_factor # q.scale_factor
    <2>1. /\ ScaleNews(r, q).scale = q.scale_factor
          /\ ScaleNews(r, q).resized = None /\ ~ScaleNews(r, q).redraw
      BY <1>3 DEF ScaleNews, Silence
    <2> QED BY <1>1, <1>3, <2>1
  <1> QED BY <1>2, <1>3

LEMMA AnnouncedTyped ==
  ASSUME NEW r \in States
  PROVE  /\ Announced(r) \in States
         /\ Announced(r).current_size = r.current_size
         /\ Announced(r).scale_factor = r.scale_factor
         /\ Announced(r).last_emitted_size = r.current_size
         /\ Announced(r).fractional = r.fractional
         /\ Announced(r).touched = r.touched
         /\ Announced(r).suspended = r.suspended
         /\ Announced(r).viewport = IF r.current_size < 1 THEN 1 ELSE r.current_size
  BY DEF Announced, States

\* A configure tells what moved since the one before.
LEMMA ConfigureKnown ==
  ASSUME NEW r \in States, NEW t \in Knowledge, Known(r, t)
  PROVE  Known(Announced(r), Tell(t, ConfigureNews(r)))
  <1>1. /\ r.scale_factor \in Scales /\ r.scale_factor # None
        /\ r.current_size \in AllSizes /\ r.current_size # None
    BY NotNone DEF States
  <1> DEFINE n == ConfigureNews(r)
  <1>2. /\ n.resized = IF r.current_size = r.last_emitted_size THEN None ELSE r.current_size
        /\ n.scale = IF r.scale_factor = r.last_emitted_scale THEN None ELSE r.scale_factor
        /\ n.occluded = "same"
    BY DEF ConfigureNews, Silence
  <1> HIDE DEF n
  <1>3. /\ Tell(t, n).size = r.current_size
        /\ Tell(t, n).scale = IF r.scale_factor = r.last_emitted_scale
                              THEN t.scale ELSE r.scale_factor
        /\ Tell(t, n).occluded = t.occluded
        /\ Tell(t, n) \in Knowledge
    BY <1>1, <1>2 DEF Tell, Known, Knowledge
  <1> QED BY <1>1, <1>3, AnnouncedTyped DEF Known, n
-----------------------------------------------------------------------------
(* The steps.                                                              *)

\* No size, no redraw, and no scale told last.
Quiet(s) ==
  /\ news'[s].resized = None /\ ~news'[s].redraw
  /\ news'[s].scale # None => news'[s].scale # told[s].scale

\* An update of outputs that keeps what a scale depends on.
SameScales(outs, new) == \A o \in Outputs : new[o].scale = outs[o].scale /\ new[o].ready = outs[o].ready

LEMMA CoherentSame ==
  ASSUME NEW r \in States, NEW q, NEW outs, NEW new, Coherent(r, outs), SameScales(outs, new),
         q.fractional = r.fractional, q.touched = r.touched, q.scale_factor = r.scale_factor
  PROVE  Coherent(q, new)
  <1>1. r.touched \subseteq Outputs
    BY DEF States
  <1>2. Resolved(q, new) = Resolved(r, outs)
    BY <1>1, ResolvedSame DEF SameScales
  <1>3. (\E o \in r.touched : ~outs[o].ready) => \E o \in q.touched : ~new[o].ready
    BY <1>1 DEF SameScales
  <1> QED BY <1>2, <1>3 DEF Coherent

\* What a surface's own new scale needs.
LEMMA RescaledTyped ==
  ASSUME NEW r \in States, NEW outs \in [Outputs -> OutputStates]
  PROVE  /\ Rescaled(r, outs) \in States
         /\ Rescaled(r, outs).suspended = r.suspended
         /\ Rescaled(r, outs).last_emitted_size = r.last_emitted_size
        /\ Rescaled(r, outs).viewport = r.viewport
         /\ Rescaled(r, outs).current_size = r.current_size
         /\ Coherent(Rescaled(r, outs), outs)
  <1>1. Resolved(r, outs) \in Scales
    BY ResolvedTyped
  <1>2. /\ Rescaled(r, outs) \in States
        /\ Rescaled(r, outs).suspended = r.suspended
        /\ Rescaled(r, outs).last_emitted_size = r.last_emitted_size
        /\ Rescaled(r, outs).viewport = r.viewport
        /\ Rescaled(r, outs).current_size = r.current_size
        /\ Rescaled(r, outs).fractional = r.fractional
        /\ Rescaled(r, outs).touched = r.touched
        /\ Rescaled(r, outs).scale_factor = Resolved(r, outs)
    BY <1>1 DEF Rescaled, States
  <1>3. Resolved(Rescaled(r, outs), outs) = Resolved(r, outs)
    BY <1>2, ResolvedSame
  <1> QED BY <1>2, <1>3 DEF Coherent

\* The parts of the invariant about the surfaces' records.
RecordsOK ==
  /\ st \in [Surfaces -> States] /\ told \in [Surfaces -> Knowledge]
  /\ outputs \in [Outputs -> OutputStates]
  /\ \A s \in Surfaces : Known(st[s], told[s]) /\ Coherent(st[s], outputs)

LEMMA RecordsFrom ==
  ASSUME NEW q, NEW t, st' = [s \in Surfaces |-> q[s]], told' = [s \in Surfaces |-> t[s]],
         outputs' \in [Outputs -> OutputStates],
         \A s \in Surfaces : Known(q[s], t[s]) /\ Coherent(q[s], outputs')
  PROVE  RecordsOK'
  <1>1. \A s \in Surfaces : st'[s] = q[s] /\ told'[s] = t[s]
    OBVIOUS
  <1>2. \A s \in Surfaces : q[s] \in States /\ t[s] \in Knowledge
    BY DEF Known
  <1> QED BY <1>1, <1>2 DEF RecordsOK

\* A handler of one surface.
LEMMA OneSurface ==
  ASSUME RecordsOK, NEW s \in Surfaces, NEW q, NEW n,
         st' = [st EXCEPT ![s] = q], PushOne(s, n),
         outputs' \in [Outputs -> OutputStates], SameScales(outputs, outputs'),
         Known(q, Tell(told[s], n)), Coherent(q, outputs')
  PROVE  RecordsOK' /\ news'[s] = n /\ \A r \in Surfaces \ {s} : news'[r] = Silence
  <1> DEFINE t == [r \in Surfaces |-> Tell(told[r], IF r = s THEN n ELSE Silence)]
             p == [r \in Surfaces |-> IF r = s THEN q ELSE st[r]]
  <1>1. /\ news' = [r \in Surfaces |-> IF r = s THEN n ELSE Silence]
        /\ told' = t
    BY PushTells DEF PushOne
  <1>2. st' = p
    BY DEF RecordsOK
  <1>3. ASSUME NEW r \in Surfaces PROVE Known(p[r], t[r]) /\ Coherent(p[r], outputs')
    <2>1. CASE r = s
      BY <2>1
    <2>2. CASE r # s
      <3>1. p[r] = st[r] /\ t[r] = told[r] /\ st[r] \in States
        BY <2>2, SilenceTells DEF RecordsOK
      <3>2. Known(st[r], told[r]) /\ Coherent(st[r], outputs)
        BY DEF RecordsOK
      <3> HIDE DEF p, t
      <3> QED BY <3>1, <3>2, CoherentSame
    <2> QED BY <2>1, <2>2
  <1>4. st' = [r \in Surfaces |-> p[r]] /\ told' = [r \in Surfaces |-> t[r]]
    BY <1>1, <1>2
  <1>5. RecordsOK'
    <2> HIDE DEF p, t
    <2> QED BY <1>3, <1>4, RecordsFrom
  <1> QED BY <1>1, <1>5

\* A handler that changes no surface and tells nothing that is kept.
LEMMA NoSurface ==
  ASSUME RecordsOK, UNCHANGED <<st, told>>, outputs' \in [Outputs -> OutputStates],
         \A s \in Surfaces : Coherent(st[s], outputs')
  PROVE  RecordsOK'
  BY DEF RecordsOK

LEMMA NothingTells ==
  ASSUME RecordsOK, PushNothing
  PROVE  told' = told /\ \A s \in Surfaces : news'[s] = Silence
  <1>1. /\ news' = [s \in Surfaces |-> Silence]
        /\ told' = [s \in Surfaces |-> Tell(told[s], [r \in Surfaces |-> Silence][s])]
    BY PushTells DEF PushNothing
  <1>2. \A s \in Surfaces : Tell(told[s], [r \in Surfaces |-> Silence][s]) = told[s]
    BY SilenceTells DEF RecordsOK
  <1> QED BY <1>1, <1>2 DEF RecordsOK

LEMMA SameSame == \A outs : SameScales(outs, outs)
  BY DEF SameScales

\* wl_output: only done rescales, and until then the output is not ready.
LEMMA OutputEvents ==
  ASSUME RecordsOK, NEW o \in Outputs,
         (\E f \in Factors : OutputScale(o, f)) \/ OutputOther(o)
  PROVE  RecordsOK' /\ UNCHANGED <<st, told>>
  <1>1. UNCHANGED <<st, told>>
    BY NothingTells DEF OutputScale, OutputOther
  <1>2. /\ outputs' \in [Outputs -> OutputStates] /\ ~outputs'[o].ready
        /\ \A p \in Outputs \ {o} : outputs'[p] = outputs[p]
    <2>1. ASSUME NEW f \in Factors, OutputScale(o, f)
          PROVE  /\ outputs' \in [Outputs -> OutputStates] /\ ~outputs'[o].ready
                 /\ \A p \in Outputs \ {o} : outputs'[p] = outputs[p]
      <3>1. AtLeastOne(f) \in OutputScales
        <4>1. f \in Int
          BY SurfacesAssumption
        <4> QED BY <4>1 DEF AtLeastOne, OutputScales
      <3>2. outputs' = [outputs EXCEPT ![o].known = TRUE, ![o].ready = FALSE,
                                      ![o].scale = AtLeastOne(f)]
        BY <2>1 DEF OutputScale
      <3> QED BY <3>1, <3>2 DEF RecordsOK, OutputStates
    <2>2. ASSUME OutputOther(o)
          PROVE  /\ outputs' \in [Outputs -> OutputStates] /\ ~outputs'[o].ready
                 /\ \A p \in Outputs \ {o} : outputs'[p] = outputs[p]
      <3>1. outputs' = [outputs EXCEPT ![o].known = TRUE, ![o].ready = FALSE]
        BY <2>2 DEF OutputOther
      <3> QED BY <3>1 DEF RecordsOK, OutputStates
    <2> QED BY <2>1, <2>2
  <1>3. ASSUME NEW s \in Surfaces PROVE Coherent(st[s], outputs')
    <2>1. st[s] \in States /\ Coherent(st[s], outputs)
      BY DEF RecordsOK
    <2>2. CASE o \in st[s].touched
      BY <1>2, <2>2 DEF Coherent
    <2>3. CASE o \notin st[s].touched
      <3>1. \A p \in st[s].touched : outputs'[p] = outputs[p]
        BY <1>2, <2>1, <2>3 DEF States
      <3>2. Resolved(st[s], outputs') = Resolved(st[s], outputs)
        BY <3>1, ResolvedSame
      <3> QED BY <2>1, <3>1, <3>2 DEF Coherent
    <2> QED BY <2>2, <2>3
  <1> QED BY <1>1, <1>2, <1>3, NoSurface

LEMMA OutputDoneKeeps ==
  ASSUME RecordsOK, NEW o \in Outputs, OutputDone(o)
  PROVE  /\ RecordsOK'
         /\ \A s \in Surfaces : Quiet(s)
         /\ \A s \in Surfaces : /\ st'[s].current_size = st[s].current_size
                               /\ st'[s].last_emitted_size = st[s].last_emitted_size
                               /\ st'[s].viewport = st[s].viewport
  <1>1. outputs' = [outputs EXCEPT ![o].known = TRUE, ![o].ready = TRUE]
    BY DEF OutputDone
  <1>2. /\ outputs' \in [Outputs -> OutputStates]
        /\ \A p \in Outputs : outputs'[p].scale = outputs[p].scale
        /\ \A p \in Outputs \ {o} : outputs'[p].ready = outputs[p].ready
    BY <1>1 DEF RecordsOK, OutputStates
  <1> DEFINE q == [s \in Surfaces |-> IF o \in st[s].touched THEN Rescaled(st[s], outputs')
                                      ELSE st[s]]
             t == [s \in Surfaces |-> Tell(told[s], ScaleNews(st[s], q[s]))]
  <1>3. st' = q
    BY DEF OutputDone, Rescale
  <1>4. /\ news' = [s \in Surfaces |-> ScaleNews(st[s], st'[s])]
        /\ told' = [s \in Surfaces |-> Tell(told[s], [r \in Surfaces |-> ScaleNews(st[r], st'[r])][s])]
    BY PushTells DEF OutputDone
  <1>5. told' = t
    BY <1>3, <1>4
  <1>6. ASSUME NEW s \in Surfaces
        PROVE  /\ Known(q[s], t[s]) /\ Coherent(q[s], outputs')
               /\ q[s].current_size = st[s].current_size
               /\ q[s].last_emitted_size = st[s].last_emitted_size
               /\ q[s].viewport = st[s].viewport
    <2>1. st[s] \in States /\ Known(st[s], told[s]) /\ Coherent(st[s], outputs)
      BY DEF RecordsOK
    <2>2. t[s] = Tell(told[s], ScaleNews(st[s], q[s]))
      OBVIOUS
    <2>3. CASE o \in st[s].touched
      <3>1. q[s] = Rescaled(st[s], outputs')
        BY <2>3
      <3> HIDE DEF q, t
      <3> QED BY <1>2, <2>1, <2>2, <3>1, RescaledTyped, ScaleKnown
    <2>4. CASE o \notin st[s].touched
      <3>1. q[s] = st[s]
        BY <2>4
      <3> HIDE DEF q, t
      <3>2. Resolved(st[s], outputs') = Resolved(st[s], outputs)
        <4>1. st[s].touched \subseteq Outputs
          BY <2>1 DEF States
        <4> QED BY <1>2, <4>1, ResolvedSame
      <3>3. Coherent(st[s], outputs')
        BY <1>2, <2>1, <2>4, <3>2 DEF Coherent, States
      <3> QED BY <2>1, <2>2, <3>1, <3>3, ScaleKnown
    <2> QED BY <2>3, <2>4
  <1>7. st' = [s \in Surfaces |-> q[s]] /\ told' = [s \in Surfaces |-> t[s]]
    BY <1>3, <1>5
  <1>8. RecordsOK'
    <2> HIDE DEF q, t
    <2> QED BY <1>2, <1>6, <1>7, RecordsFrom
  <1>9. ASSUME NEW s \in Surfaces PROVE Quiet(s)
    <2>1. news'[s] = ScaleNews(st[s], st'[s]) /\ Known(st[s], told[s])
      BY <1>4 DEF RecordsOK
    <2> QED BY <2>1, ScaleQuiet DEF Quiet
  <1> QED BY <1>3, <1>6, <1>8, <1>9

\* enter, leave and preferred_scale.
ScaleOnly ==
  /\ \A s \in Surfaces : Quiet(s)
  /\ \A s \in Surfaces : /\ st'[s].current_size = st[s].current_size
                        /\ st'[s].last_emitted_size = st[s].last_emitted_size
                        /\ st'[s].viewport = st[s].viewport

LEMMA NewScale ==
  ASSUME RecordsOK, NEW s \in Surfaces, NEW q \in States,
         st' = [st EXCEPT ![s] = q], PushOne(s, ScaleNews(st[s], q)),
         q.suspended = st[s].suspended, q.last_emitted_size = st[s].last_emitted_size,
         q.current_size = st[s].current_size, q.viewport = st[s].viewport,
         outputs' \in [Outputs -> OutputStates], SameScales(outputs, outputs'),
         Coherent(q, outputs')
  PROVE  RecordsOK' /\ ScaleOnly
  <1>1. Known(q, Tell(told[s], ScaleNews(st[s], q)))
    BY ScaleKnown DEF RecordsOK
  <1>2. RecordsOK' /\ news'[s] = ScaleNews(st[s], q)
          /\ \A r \in Surfaces \ {s} : news'[r] = Silence
    BY <1>1, OneSurface
  <1>3. ASSUME NEW r \in Surfaces PROVE Quiet(r)
    <2>1. CASE r = s
      BY <1>2, <2>1, ScaleQuiet DEF Quiet, RecordsOK
    <2>2. CASE r # s
      BY <1>2, <2>2 DEF Quiet, Silence
    <2> QED BY <2>1, <2>2
  <1>4. \A r \in Surfaces : /\ st'[r].current_size = st[r].current_size
                          /\ st'[r].last_emitted_size = st[r].last_emitted_size
                          /\ st'[r].viewport = st[r].viewport
    BY DEF RecordsOK
  <1> QED BY <1>2, <1>3, <1>4 DEF ScaleOnly

LEMMA TouchedKeeps ==
  ASSUME RecordsOK, NEW s \in Surfaces, NEW touched \in SUBSET Outputs,
         NEW outs \in [Outputs -> OutputStates], SetTouched(s, touched, outs),
         outputs' = outs, SameScales(outputs, outs)
  PROVE  RecordsOK' /\ ScaleOnly
  <1> DEFINE r == [st[s] EXCEPT !.touched = touched]
             q == Rescaled(r, outs)
  <1>1. st[s] \in States
    BY DEF RecordsOK
  <1>2. /\ r \in States /\ r.suspended = st[s].suspended
        /\ r.last_emitted_size = st[s].last_emitted_size /\ r.current_size = st[s].current_size
        /\ r.viewport = st[s].viewport
    BY <1>1 DEF States
  <1>3. st' = [st EXCEPT ![s] = q] /\ PushOne(s, ScaleNews(st[s], q))
    BY DEF SetTouched
  <1> HIDE DEF r
  <1>4. /\ q \in States /\ Coherent(q, outs) /\ q.suspended = r.suspended
        /\ q.last_emitted_size = r.last_emitted_size /\ q.current_size = r.current_size
        /\ q.viewport = r.viewport
    BY <1>2, RescaledTyped
  <1> HIDE DEF q
  <1> QED BY <1>2, <1>3, <1>4, NewScale

LEMMA EnterLeaveKeep ==
  ASSUME RecordsOK, NEW s \in Surfaces, NEW o \in Outputs,
         SurfaceEnter(s, o) \/ SurfaceLeave(s, o)
  PROVE  RecordsOK' /\ ScaleOnly
  <1>1. st[s].touched \cup {o} \in SUBSET Outputs /\ st[s].touched \ {o} \in SUBSET Outputs
    BY DEF RecordsOK, States
  <1>2. CASE SurfaceEnter(s, o)
    <2>1. outputs' = [outputs EXCEPT ![o].known = TRUE]
            /\ SetTouched(s, st[s].touched \cup {o}, outputs')
      BY <1>2 DEF SurfaceEnter
    <2>2. outputs' \in [Outputs -> OutputStates] /\ SameScales(outputs, outputs')
      BY <2>1 DEF RecordsOK, OutputStates, SameScales
    <2> QED BY <1>1, <2>1, <2>2, TouchedKeeps
  <1>3. CASE SurfaceLeave(s, o)
    <2>1. outputs' = outputs /\ SetTouched(s, st[s].touched \ {o}, outputs)
      BY <1>3 DEF SurfaceLeave
    <2>2. outputs \in [Outputs -> OutputStates]
      BY DEF RecordsOK
    <2> QED BY <1>1, <2>1, <2>2, SameSame, TouchedKeeps
  <1> QED BY <1>2, <1>3

LEMMA PreferredKeeps ==
  ASSUME RecordsOK, NEW s \in Surfaces, NEW f \in Fractions, PreferredScale(s, f)
  PROVE  RecordsOK' /\ ScaleOnly
  <1> DEFINE q == [st[s] EXCEPT !.fractional = f, !.scale_factor = f]
  <1>1. st[s] \in States
    BY DEF RecordsOK
  <1>2. /\ q \in States /\ q.suspended = st[s].suspended /\ q.fractional = f
        /\ q.last_emitted_size = st[s].last_emitted_size
        /\ q.current_size = st[s].current_size /\ q.scale_factor = f
        /\ q.viewport = st[s].viewport
    BY <1>1 DEF States, Scales
  <1>3. /\ st' = [st EXCEPT ![s] = q] /\ PushOne(s, ScaleNews(st[s], q))
        /\ outputs' = outputs
    BY DEF PreferredScale
  <1>4. f # None
    BY SurfacesAssumption DEF None
  <1> HIDE DEF q
  <1>5. Coherent(q, outputs)
    BY <1>2, <1>4 DEF Coherent, Resolved
  <1>6. outputs \in [Outputs -> OutputStates]
    BY DEF RecordsOK
  <1> QED BY <1>2, <1>3, <1>5, <1>6, SameSame, NewScale
-----------------------------------------------------------------------------
(* Configures and handles.                                                 *)

\* The consumer is told of a new size once, and asked to draw at a size it was
\* told.
Announces(s) ==
  /\ news'[s].resized # None => news'[s].resized # told[s].size
  /\ news'[s].scale # None /\ news'[s].scale = told[s].scale => news'[s].redraw
  /\ news'[s].redraw /\ ~EarlyRequest(s) /\ (Preferred[s] > 0 \/ s \in LayerSurfaces) =>
       told'[s].size > 0 /\ st'[s].viewport = told'[s].size

LEMMA QuietAnnounces ==
  ASSUME NEW s, Quiet(s)
  PROVE  Announces(s)
  BY DEF Announces, Quiet

LEMMA ChosenTyped ==
  ASSUME RecordsOK, NEW s \in Surfaces, NEW z \in Sizes
  PROVE  /\ Chosen(s, z) \in AllSizes
         /\ z > 0 \/ Preferred[s] > 0 => Chosen(s, z) > 0
  <1>1. st[s].current_size \in AllSizes
    BY DEF RecordsOK, States
  <1>2. z \in AllSizes /\ Preferred[s] \in AllSizes
    BY DEF AllSizes
  <1> QED BY <1>1, <1>2, NotNone DEF Chosen

LEMMA ToplevelConfigureKeeps ==
  ASSUME RecordsOK, SetsOK, \A r \in Surfaces : Settled(r), NEW s \in Surfaces, NEW z \in Sizes,
         NEW b \in BOOLEAN, XdgToplevelConfigure(s, z, b)
  PROVE  RecordsOK' /\ \A r \in Surfaces : Settled(r)' /\ Announces(r)
  <1> DEFINE q == [st[s] EXCEPT !.current_size = Chosen(s, z), !.suspended = b]
             n == OcclusionNews(s, b)
  <1>1. st[s] \in States /\ Known(st[s], told[s]) /\ Coherent(st[s], outputs)
    BY DEF RecordsOK
  <1>2. /\ q \in States /\ q.current_size = Chosen(s, z) /\ q.suspended = b
        /\ q.fractional = st[s].fractional /\ q.touched = st[s].touched
        /\ q.scale_factor = st[s].scale_factor
        /\ q.last_emitted_size = st[s].last_emitted_size /\ q.viewport = st[s].viewport
    BY <1>1, ChosenTyped DEF States
  <1>3. /\ st' = [st EXCEPT ![s].current_size = Chosen(s, z), ![s].suspended = b]
        /\ PushOne(s, n) /\ UNCHANGED <<built, alive, outputs>>
        /\ configuring' = configuring \cup {s}
    BY DEF XdgToplevelConfigure
  <1>4. st' = [st EXCEPT ![s] = q]
    BY <1>3
  <1>5. /\ n.resized = None /\ n.scale = None /\ ~n.redraw
        /\ n.occluded = IF b = st[s].suspended THEN "same"
                        ELSE IF b THEN "hidden" ELSE "visible"
    BY DEF OcclusionNews, Silence
  <1> HIDE DEF q, n
  <1>6. /\ Tell(told[s], n).size = told[s].size /\ Tell(told[s], n).scale = told[s].scale
        /\ Tell(told[s], n).occluded = IF b THEN "hidden" ELSE "visible"
    BY <1>1, <1>5 DEF Tell, Known
  <1>7. Tell(told[s], n) \in Knowledge
    <2>1. Tell(told[s], n) = [size |-> told[s].size, scale |-> told[s].scale,
                              occluded |-> IF b THEN "hidden" ELSE "visible"]
      BY <1>6 DEF Tell
    <2>2. told[s].size \in AllSizes /\ told[s].scale \in Scales \cup {None}
      BY <1>1 DEF Known, Knowledge
    <2> QED BY <2>1, <2>2 DEF Knowledge
  <1>8. Known(q, Tell(told[s], n))
    BY <1>1, <1>2, <1>6, <1>7 DEF Known
  <1>9. Coherent(q, outputs')
    BY <1>1, <1>2, <1>3, SameSame, CoherentSame
  <1>10. RecordsOK' /\ news'[s] = n /\ \A r \in Surfaces \ {s} : news'[r] = Silence
    BY <1>3, <1>4, <1>8, <1>9, SameSame, OneSurface DEF RecordsOK
  <1>11. \A r \in Surfaces : Quiet(r)
    <2>1. Silence.resized = None /\ ~Silence.redraw /\ Silence.scale = None
      BY DEF Silence
    <2> QED BY <1>5, <1>10, <2>1 DEF Quiet
  <1>12. ASSUME NEW r \in Surfaces PROVE Settled(r)'
    <2>1. CASE r = s
      <3>1. /\ st'[s].current_size = Chosen(s, z)
            /\ st'[s].last_emitted_size = st[s].last_emitted_size
            /\ st'[s].viewport = st[s].viewport
        BY <1>2, <1>4 DEF RecordsOK
      <3> QED BY <1>3, <2>1, <3>1, ChosenTyped DEF Settled, Drawable
    <2>2. CASE r # s
      <3>1. st'[r] = st[r]
        BY <1>4, <2>2 DEF RecordsOK
      <3> QED BY <1>3, <2>2, <3>1 DEF Settled, Drawable
    <2> QED BY <2>1, <2>2
  <1> QED BY <1>10, <1>11, <1>12, QuietAnnounces

\* The ack of a configure whose size is r's.
LEMMA AcknowledgeKeeps ==
  ASSUME RecordsOK, \A r \in Surfaces : Settled(r), NEW s \in Surfaces, NEW r \in States,
         Known(r, told[s]), Coherent(r, outputs), Acknowledge(s, r),
         configuring' \in {configuring, configuring \ {s}},
         s \in configuring => configuring' = configuring \ {s},
         Preferred[s] > 0 \/ s \in LayerSurfaces => r.current_size > 0
  PROVE  RecordsOK' /\ \A x \in Surfaces : Settled(x)' /\ Announces(x)
  <1> DEFINE q == Announced(r)
             n == ConfigureNews(r)
  <1>1. st' = [st EXCEPT ![s] = q] /\ PushOne(s, n) /\ UNCHANGED <<built, alive, outputs>>
    BY DEF Acknowledge
  <1>2. told[s] \in Knowledge
    BY DEF RecordsOK
  <1>3. Known(q, Tell(told[s], n))
    BY <1>2, ConfigureKnown
  <1>4. /\ q.current_size = r.current_size /\ q.last_emitted_size = r.current_size
        /\ q.viewport = IF r.current_size < 1 THEN 1 ELSE r.current_size
        /\ q.fractional = r.fractional /\ q.touched = r.touched
        /\ q.scale_factor = r.scale_factor
    BY AnnouncedTyped
  <1>5. /\ n.resized = IF r.current_size = r.last_emitted_size THEN None ELSE r.current_size
        /\ n.redraw
    BY DEF ConfigureNews, Silence
  <1> HIDE DEF q, n
  <1>6. Coherent(q, outputs')
    BY <1>1, <1>4, SameSame, CoherentSame
  <1>7. RecordsOK' /\ news'[s] = n /\ \A x \in Surfaces \ {s} : news'[x] = Silence
    BY <1>1, <1>3, <1>6, SameSame, OneSurface DEF RecordsOK
  <1>8. /\ st'[s] = q /\ told'[s].size = r.current_size
        /\ \A x \in Surfaces \ {s} : st'[x] = st[x]
    <2>1. st'[s] = q /\ \A x \in Surfaces \ {s} : st'[x] = st[x]
      BY <1>1 DEF RecordsOK
    <2>2. Known(st'[s], told'[s])
      BY <1>7 DEF RecordsOK
    <2> QED BY <1>4, <2>1, <2>2 DEF Known
  <1>9. r.current_size \in Nat
    BY NotNone DEF States
  <1>10. Announces(s)
    <2>1. told[s].size = r.last_emitted_size
      BY DEF Known
    <2>2. news'[s].resized # None => news'[s].resized # told[s].size
      BY <1>5, <1>7, <2>1
    <2>3. Preferred[s] > 0 \/ s \in LayerSurfaces =>
            told'[s].size > 0 /\ st'[s].viewport = told'[s].size
      BY <1>4, <1>8, <1>9
    <2> QED BY <1>5, <1>7, <2>2, <2>3 DEF Announces
  <1>11. ASSUME NEW x \in Surfaces, x # s PROVE Settled(x)' /\ Announces(x)
    <2>1. Silence.resized = None /\ ~Silence.redraw /\ Silence.scale = None
      BY DEF Silence
    <2>2. Announces(x)
      BY <1>7, <1>11, <2>1, QuietAnnounces DEF Quiet
    <2>3. Settled(x)'
      BY <1>1, <1>8, <1>11 DEF Settled, Drawable
    <2> QED BY <2>2, <2>3
  <1>12. Settled(s)'
    <2>1. s \notin configuring'
      OBVIOUS
    <2> QED BY <1>4, <1>8, <1>9, <2>1 DEF Settled, Drawable
  <1> QED BY <1>7, <1>10, <1>11, <1>12

LEMMA ConfigureKeeps ==
  ASSUME RecordsOK, SetsOK, \A r \in Surfaces : Settled(r), NEW s \in Surfaces,
         XdgSurfaceConfigure(s) \/ \E z \in Sizes : LayerConfigure(s, z)
  PROVE  RecordsOK' /\ \A r \in Surfaces : Settled(r)' /\ Announces(r)
  <1>1. st[s] \in States /\ Known(st[s], told[s]) /\ Coherent(st[s], outputs)
    BY DEF RecordsOK
  <1>2. CASE XdgSurfaceConfigure(s)
    <2>1. /\ s \in configuring /\ configuring' = configuring \ {s}
          /\ Acknowledge(s, st[s])
      BY <1>2 DEF XdgSurfaceConfigure
    <2>2. s \notin LayerSurfaces
      BY <2>1, SurfacesAssumption DEF SetsOK
    <2>3. Preferred[s] > 0 => st[s].current_size > 0
      BY <2>1 DEF Settled
    <2> QED BY <1>1, <2>1, <2>2, <2>3, AcknowledgeKeeps
  <1>3. ASSUME NEW z \in Sizes, LayerConfigure(s, z)
        PROVE  RecordsOK' /\ \A r \in Surfaces : Settled(r)' /\ Announces(r)
    <2> DEFINE r == [st[s] EXCEPT !.current_size = Chosen(s, z)]
    <2>1. /\ s \in LayerSurfaces /\ (Preferred[s] = 0 => z > 0)
          /\ Acknowledge(s, r) /\ configuring' = configuring
      BY <1>3 DEF LayerConfigure
    <2>2. s \notin configuring
      BY <2>1, SurfacesAssumption DEF SetsOK
    <2>3. /\ r \in States /\ r.current_size = Chosen(s, z)
          /\ r.fractional = st[s].fractional /\ r.touched = st[s].touched
          /\ r.scale_factor = st[s].scale_factor /\ r.suspended = st[s].suspended
          /\ r.last_emitted_size = st[s].last_emitted_size
      BY <1>1, ChosenTyped DEF States
    <2> HIDE DEF r
    <2>4. Known(r, told[s]) /\ Coherent(r, outputs)
      <3>1. Known(r, told[s])
        BY <1>1, <2>3 DEF Known
      <3> QED BY <1>1, <2>3, <3>1, SameSame, CoherentSame
    <2>5. r.current_size > 0
      <3>1. Preferred[s] \in Nat
        BY SurfacesAssumption
      <3> QED BY <2>1, <2>3, <3>1, ChosenTyped
    <2> QED BY <2>1, <2>2, <2>3, <2>4, <2>5, AcknowledgeKeeps
  <1> QED BY <1>2, <1>3

LEMMA HandlesKeep ==
  ASSUME RecordsOK, SetsOK, \A r \in Surfaces : Settled(r), NEW s \in Surfaces,
         CloseRequested(s) \/ Build(s) \/ DropHandle(s)
  PROVE  RecordsOK' /\ \A r \in Surfaces : Settled(r)' /\ Announces(r)
  <1>1. /\ UNCHANGED <<st, told, outputs>>
        /\ \A r \in Surfaces : Quiet(r)
    <2>1. CASE Build(s) \/ DropHandle(s)
      <3>1. PushNothing /\ UNCHANGED <<st, outputs>>
        BY <2>1 DEF Build, DropHandle
      <3>2. Silence.resized = None /\ ~Silence.redraw /\ Silence.scale = None
        BY DEF Silence
      <3> QED BY <3>1, <3>2, NothingTells DEF Quiet
    <2>2. CASE CloseRequested(s)
      <3> DEFINE n == [Silence EXCEPT !.close = TRUE]
                 all == [r \in Surfaces |-> IF r = s THEN n ELSE Silence]
      <3>1. Push(all) /\ UNCHANGED <<st, outputs>>
        BY <2>2 DEF CloseRequested, PushOne
      <3>2. /\ n.resized = None /\ n.scale = None /\ n.occluded = "same" /\ ~n.redraw
            /\ Silence.resized = None /\ ~Silence.redraw /\ Silence.scale = None
        BY DEF Silence
      <3>3. ASSUME NEW r \in Surfaces PROVE Tell(told[r], all[r]) = told[r]
        <4>1. told[r] \in Knowledge
          BY DEF RecordsOK
        <4>2. CASE r = s
          <5>1. Tell(told[r], n) = told[r]
            <6> HIDE DEF n
            <6> QED BY <3>2, <4>1 DEF Tell, Knowledge
          <5> QED BY <4>2, <5>1
        <4>3. CASE r # s
          BY <4>1, <4>3, SilenceTells
        <4> QED BY <4>2, <4>3
      <3>4. told' = told
        <4>1. told' = [r \in Surfaces |-> Tell(told[r], all[r])]
          BY <3>1, PushTells
        <4>2. told \in [Surfaces -> Knowledge]
          BY DEF RecordsOK
        <4> HIDE DEF all
        <4> QED BY <3>3, <4>1, <4>2
      <3>5. \A r \in Surfaces : Quiet(r)
        <4>1. news' = all
          BY <3>1, PushTells
        <4> HIDE DEF n
        <4> QED BY <3>2, <4>1 DEF Quiet
      <3> QED BY <3>1, <3>4, <3>5
    <2> QED BY <2>1, <2>2
  <1>2. RecordsOK'
    BY <1>1 DEF RecordsOK
  <1>3. ASSUME NEW r \in Surfaces PROVE Settled(r)'
    <2>1. st'[r] = st[r] /\ Settled(r)
      BY <1>1
    <2>2. CASE CloseRequested(s)
      BY <2>1, <2>2 DEF CloseRequested, Settled, Drawable
    <2>3. CASE Build(s)
      BY <2>1, <2>3 DEF Build, Settled, Drawable, SetsOK
    <2>4. CASE DropHandle(s)
      BY <2>1, <2>4 DEF DropHandle, Settled, Drawable, SetsOK
    <2> QED BY <2>2, <2>3, <2>4
  <1> QED BY <1>1, <1>2, <1>3, QuietAnnounces
\* A drained request changes nothing and tells nothing, and it finds the surface
\* as the last configure left it, or not configured yet.
LEMMA DrainKeeps ==
  ASSUME RecordsOK, \A r \in Surfaces : Settled(r), NEW flagged \in SUBSET built,
         DrainRedrawRequests(flagged)
  PROVE  RecordsOK' /\ \A r \in Surfaces : Settled(r)' /\ Announces(r)
  <1> DEFINE n(r) == [Silence EXCEPT !.redraw = r \in flagged]
             all == [r \in Surfaces |-> n(r)]
  <1>1. Push(all) /\ UNCHANGED <<built, alive, st, outputs, configuring>>
    BY DEF DrainRedrawRequests
  <1>2. ASSUME NEW r \in Surfaces
        PROVE  n(r).resized = None /\ n(r).scale = None /\ n(r).occluded = "same"
    BY DEF Silence
  <1>3. news' = all /\ told' = [r \in Surfaces |-> Tell(told[r], all[r])]
    BY <1>1, PushTells
  <1>4. ASSUME NEW r \in Surfaces PROVE Tell(told[r], all[r]) = told[r]
    <2>1. told[r] \in Knowledge /\ all[r] = n(r)
      BY DEF RecordsOK
    <2> HIDE DEF n
    <2> QED BY <1>2, <2>1 DEF Tell, Knowledge
  <1>5. told' = told
    <2>1. told \in [Surfaces -> Knowledge]
      BY DEF RecordsOK
    <2> HIDE DEF all
    <2> QED BY <1>3, <1>4, <2>1
  <1>6. RecordsOK'
    BY <1>1, <1>5 DEF RecordsOK
  <1>7. ASSUME NEW r \in Surfaces PROVE Settled(r)'
    BY <1>1 DEF Settled, Drawable
  <1>8. ASSUME NEW r \in Surfaces PROVE Announces(r)
    <2>1. news'[r].resized = None /\ news'[r].scale = None
      BY <1>2, <1>3
    <2>2. st'[r] = st[r] /\ told'[r] = told[r] /\ told[r].size = st[r].last_emitted_size
      BY <1>1, <1>5 DEF RecordsOK, Known
    <2>3. Drawable(r)
      BY DEF Settled
    <2> QED BY <2>1, <2>2, <2>3 DEF Announces, EarlyRequest, Drawable
  <1> QED BY <1>6, <1>7, <1>8
-----------------------------------------------------------------------------
(* The invariant.                                                          *)

LEMMA SetsKeep ==
  ASSUME SetsOK, RecordsOK', Next
  PROVE  SetsOK'
  <1>1. /\ alive' \subseteq built' /\ built' \subseteq Surfaces
        /\ configuring' \subseteq alive' \cap Toplevels
    <2>1. ASSUME NEW o \in Outputs,
                 \/ \E f \in Factors : OutputScale(o, f)
                 \/ OutputOther(o) \/ OutputDone(o)
          PROVE  UNCHANGED <<built, alive, configuring>>
      BY <2>1 DEF OutputScale, OutputOther, OutputDone
    <2>2. ASSUME NEW s \in Surfaces,
                 \/ \E o \in Outputs : SurfaceEnter(s, o) \/ SurfaceLeave(s, o)
                 \/ \E f \in Fractions : PreferredScale(s, f)
                 \/ \E z \in Sizes : LayerConfigure(s, z)
                 \/ CloseRequested(s)
          PROVE  UNCHANGED <<built, alive, configuring>>
      BY <2>2 DEF SurfaceEnter, SurfaceLeave, PreferredScale, LayerConfigure, Acknowledge,
         CloseRequested
    <2>3. ASSUME NEW s \in Surfaces, NEW z \in Sizes, NEW b \in BOOLEAN,
                 XdgToplevelConfigure(s, z, b)
          PROVE  /\ alive' \subseteq built' /\ built' \subseteq Surfaces
                 /\ configuring' \subseteq alive' \cap Toplevels
      BY <2>3 DEF XdgToplevelConfigure, SetsOK
    <2>4. ASSUME NEW s \in Surfaces, XdgSurfaceConfigure(s)
          PROVE  /\ alive' \subseteq built' /\ built' \subseteq Surfaces
                 /\ configuring' \subseteq alive' \cap Toplevels
      BY <2>4 DEF XdgSurfaceConfigure, Acknowledge, SetsOK
    <2>5. ASSUME NEW s \in Surfaces, Build(s) \/ DropHandle(s)
          PROVE  /\ alive' \subseteq built' /\ built' \subseteq Surfaces
                 /\ configuring' \subseteq alive' \cap Toplevels
      BY <2>5 DEF Build, DropHandle, SetsOK
    <2>6. ASSUME NEW flagged \in SUBSET built, DrainRedrawRequests(flagged)
          PROVE  UNCHANGED <<built, alive, configuring>>
      BY <2>6 DEF DrainRedrawRequests
    <2> QED BY <2>1, <2>2, <2>3, <2>4, <2>5, <2>6 DEF Next, SetsOK
  <1> QED BY <1>1 DEF SetsOK, RecordsOK

LEMMA StepKeeps ==
  ASSUME IInv, Next
  PROVE  IInv' /\ \A s \in Surfaces : Announces(s)
  <1>1. RecordsOK /\ SetsOK /\ \A s \in Surfaces : Settled(s)
    BY DEF IInv, RecordsOK, SetsOK
  <1>2. ASSUME ScaleOnly, UNCHANGED <<built, alive, configuring>>
        PROVE  \A s \in Surfaces : Settled(s)' /\ Announces(s)
    BY <1>1, <1>2, QuietAnnounces DEF ScaleOnly, Settled, Drawable
  <1>3. RecordsOK' /\ \A s \in Surfaces : Settled(s)' /\ Announces(s)
    <2>1. ASSUME NEW o \in Outputs,
                 (\E f \in Factors : OutputScale(o, f)) \/ OutputOther(o)
          PROVE  RecordsOK' /\ \A x \in Surfaces : Settled(x)' /\ Announces(x)
      <3>1. PushNothing /\ UNCHANGED <<built, alive, configuring>>
        BY <2>1 DEF OutputScale, OutputOther
      <3>2. ScaleOnly
        <4>1. Silence.resized = None /\ ~Silence.redraw /\ Silence.scale = None
          BY DEF Silence
        <4> QED BY <1>1, <2>1, <3>1, <4>1, OutputEvents, NothingTells DEF ScaleOnly, Quiet
      <3> QED BY <1>1, <1>2, <2>1, <3>1, <3>2, OutputEvents
    <2>2. ASSUME NEW o \in Outputs, OutputDone(o)
          PROVE  RecordsOK' /\ \A x \in Surfaces : Settled(x)' /\ Announces(x)
      <3>1. UNCHANGED <<built, alive, configuring>>
        BY <2>2 DEF OutputDone
      <3>2. RecordsOK' /\ ScaleOnly
        BY <1>1, <2>2, OutputDoneKeeps DEF ScaleOnly
      <3> QED BY <1>2, <3>1, <3>2
    <2>3. ASSUME NEW s \in Surfaces, NEW o \in Outputs, SurfaceEnter(s, o) \/ SurfaceLeave(s, o)
          PROVE  RecordsOK' /\ \A x \in Surfaces : Settled(x)' /\ Announces(x)
      <3>1. UNCHANGED <<built, alive, configuring>>
        BY <2>3 DEF SurfaceEnter, SurfaceLeave
      <3> QED BY <1>1, <1>2, <2>3, <3>1, EnterLeaveKeep
    <2>4. ASSUME NEW s \in Surfaces, NEW f \in Fractions, PreferredScale(s, f)
          PROVE  RecordsOK' /\ \A x \in Surfaces : Settled(x)' /\ Announces(x)
      <3>1. UNCHANGED <<built, alive, configuring>>
        BY <2>4 DEF PreferredScale
      <3> QED BY <1>1, <1>2, <2>4, <3>1, PreferredKeeps
    <2>5. ASSUME NEW s \in Surfaces, NEW z \in Sizes, NEW b \in BOOLEAN,
                 XdgToplevelConfigure(s, z, b)
          PROVE  RecordsOK' /\ \A x \in Surfaces : Settled(x)' /\ Announces(x)
      BY <1>1, <2>5, ToplevelConfigureKeeps
    <2>6. ASSUME NEW s \in Surfaces,
                 XdgSurfaceConfigure(s) \/ \E z \in Sizes : LayerConfigure(s, z)
          PROVE  RecordsOK' /\ \A x \in Surfaces : Settled(x)' /\ Announces(x)
      BY <1>1, <2>6, ConfigureKeeps
    <2>7. ASSUME NEW s \in Surfaces, CloseRequested(s) \/ Build(s) \/ DropHandle(s)
          PROVE  RecordsOK' /\ \A x \in Surfaces : Settled(x)' /\ Announces(x)
      BY <1>1, <2>7, HandlesKeep
    <2>8. ASSUME NEW flagged \in SUBSET built, DrainRedrawRequests(flagged)
          PROVE  RecordsOK' /\ \A x \in Surfaces : Settled(x)' /\ Announces(x)
      BY <1>1, <2>8, DrainKeeps
    <2> QED BY <2>1, <2>2, <2>3, <2>4, <2>5, <2>6, <2>7, <2>8 DEF Next
  <1>4. SetsOK'
    BY <1>1, <1>3, SetsKeep
  <1> QED BY <1>3, <1>4 DEF IInv, RecordsOK

LEMMA FreshKnown ==
  /\ Fresh \in States
  /\ Known(Fresh, [size |-> 0, scale |-> None, occluded |-> "visible"])
  /\ \A outs : Coherent(Fresh, outs)
  <1>1. 0 \in AllSizes /\ 120 \in Scales
    <2>1. 1 \in OutputScales
      BY DEF OutputScales
    <2> QED BY <2>1 DEF AllSizes, Scales
  <1>2. Fresh \in States
    BY <1>1 DEF Fresh, States
  <1>3. Known(Fresh, [size |-> 0, scale |-> None, occluded |-> "visible"])
    BY <1>1, <1>2 DEF Fresh, Known, Knowledge
  <1>4. \A outs : Resolved(Fresh, outs) = 120
    BY DEF Fresh, Resolved
  <1>5. Fresh.scale_factor = 120
    BY DEF Fresh
  <1> QED BY <1>2, <1>3, <1>4, <1>5 DEF Coherent

LEMMA InitInv == Init => IInv
  <1> SUFFICES ASSUME Init PROVE IInv
    OBVIOUS
  <1> DEFINE nothing == [size |-> 0, scale |-> None, occluded |-> "visible"]
  <1>1. /\ st = [s \in Surfaces |-> Fresh] /\ told = [s \in Surfaces |-> nothing]
        /\ built = {} /\ alive = {} /\ configuring = {}
        /\ outputs = [o \in Outputs |-> NoOutput]
    BY DEF Init
  <1>2. nothing \in Knowledge /\ Known(Fresh, nothing)
    BY FreshKnown DEF Known
  <1>3. NoOutput \in OutputStates
    BY DEF NoOutput, OutputStates, OutputScales
  <1>4. Fresh.current_size = Fresh.last_emitted_size
    BY DEF Fresh
  <1> HIDE DEF nothing
  <1>5. SetsOK
    BY <1>1, <1>2, <1>3, FreshKnown DEF SetsOK
  <1>6. \A s \in Surfaces : st[s] = Fresh /\ told[s] = nothing
    BY <1>1
  <1>7. Fresh.viewport = None
    BY DEF Fresh
  <1> QED BY <1>1, <1>2, <1>4, <1>5, <1>6, <1>7, FreshKnown DEF IInv, Settled, Drawable

LEMMA Invariance == Spec => []IInv
  <1>1. IInv /\ UNCHANGED vars => IInv'
    BY DEF vars, IInv, SetsOK, Settled, Drawable
  <1>2. IInv /\ Next => IInv'
    BY StepKeeps
  <1> QED BY <1>1, <1>2, InitInv, PTL DEF Spec
-----------------------------------------------------------------------------
(* Theorems.                                                               *)

\* The variables keep their types (ToplevelState, LayerSurfaceState,
\* OutputState).
THEOREM TypeCorrect == Spec => []TypeOK
  <1>1. IInv => TypeOK
    BY DEF IInv, SetsOK, TypeOK, Knowledge
  <1> QED BY Invariance, <1>1, PTL

\* The cached scale of a surface is the one its outputs call for
\* (resolved_scale_for_toplevel and recompute_scale_for_outputs).
THEOREM ScaleIsResolved == Spec => []ScaleCoherent
  <1>1. IInv => ScaleCoherent
    BY DEF IInv, Coherent, ScaleCoherent
  <1> QED BY Invariance, <1>1, PTL

\* The consumer knows the scale scale_factor() returns, by whatever path it came.
THEOREM ScaleIsTold == Spec => []ScaleTold
  <1>1. IInv => ScaleTold
    BY DEF IInv, Known, ScaleTold
  <1> QED BY Invariance, <1>1, PTL

\* The consumer knows what size() and is_occluded() return, the former outside
\* a configure sequence.
THEOREM ConfigureIsTold == Spec => []ConfigureTold
  <1>1. IInv => ConfigureTold
    BY DEF IInv, SetsOK, Known, Settled, ConfigureTold
  <1> QED BY Invariance, <1>1, PTL

AnnounceStep == \A s \in Surfaces : Announces(s)

LEMMA AnnounceSteps == IInv /\ [Next]_vars => AnnounceStep \/ UNCHANGED vars
  BY StepKeeps DEF AnnounceStep

\* No Resized repeats the size told last (the two configure paths), and a
\* ScaleFactorChanged repeats the scale told last only in a configure.
THEOREM NewsIsNew == Spec => ToldOnce
  <1>1. AnnounceStep =>
          \A s \in Surfaces :
            /\ news'[s].resized # None => news'[s].resized # told[s].size
            /\ news'[s].scale # None /\ news'[s].scale = told[s].scale
                 => news'[s].redraw
    BY DEF AnnounceStep, Announces
  <1> QED BY Invariance, AnnounceSteps, <1>1, PTL DEF Spec, ToldOnce

\* A surface is asked to draw at a size it was told, which its viewport covers:
\* in every configure of a layer surface and of a toplevel whose builder asked
\* for a size, and in every request of theirs that is drained after the first
\* configure (drain_redraw_requests, which looks at no size).
THEOREM DrawnWhole == Spec => DrawnAtToldSize
  <1>1. AnnounceStep =>
          \A s \in Surfaces :
            news'[s].redraw /\ ~EarlyRequest(s)
              /\ (Preferred[s] > 0 \/ s \in LayerSurfaces) =>
              told'[s].size > 0 /\ st'[s].viewport = told'[s].size
    BY DEF AnnounceStep, Announces
  <1> QED BY Invariance, AnnounceSteps, <1>1, PTL DEF Spec, DrawnAtToldSize
=============================================================================
