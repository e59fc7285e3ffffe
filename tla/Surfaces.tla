------------------------------ MODULE Surfaces ------------------------------
(***************************************************************************)
(* Sizes, scales and outputs: the dispatchers of wl_output, wl_surface,    *)
(* xdg_surface, xdg_toplevel, zwlr_layer_surface and wp_fractional_scale   *)
(* (src/connection.rs) over ToplevelState, LayerSurfaceState and           *)
(* OutputState, with the handles' build and drop.                          *)
(*                                                                         *)
(* Both axes of a size obey the same rules, so one stands for the pair.    *)
(* Scales are in units of 1/120, as on the wire.  The events a handler     *)
(* pushes for one surface are collected in news: a handler pushes at most  *)
(* one of each kind, a configure in the order Resized, ScaleFactorChanged, *)
(* RedrawRequested; EventLoop shows that they are handed over in order.    *)
(***************************************************************************)
EXTENDS Integers, FiniteSets, FiniteSetsExt

\* A definition Name_Slip is Name as a slip of the programmer would make it;
\* nothing here uses it: put in the place of Name, it must break the property
\* the README lists it under.

CONSTANTS
  Toplevels, LayerSurfaces,  \* surfaces of the two kinds
  Outputs,                   \* the wl_outputs bound at startup
  Sizes,                     \* sizes the compositor configures; 0: you pick
  Factors,                   \* values of wl_output.scale
  Fractions,                 \* values of preferred_scale, in 1/120
  Preferred,                 \* the builder's size, per surface
  MaxBuilt                   \* bound: surfaces the consumer builds

Surfaces == Toplevels \cup LayerSurfaces
None == -1

ASSUME SurfacesAssumption ==
  /\ Toplevels \cap LayerSurfaces = {}
  /\ Sizes \subseteq Nat /\ Factors \subseteq Int /\ Fractions \subseteq Nat \ {0}
  /\ Preferred \in [Surfaces -> Nat]
  /\ IsFiniteSet(Outputs)
  /\ MaxBuilt \in Nat

VARIABLES
  built, alive,      \* surfaces with a state entry; with a live handle
  st,                \* ToplevelState or LayerSurfaceState
  outputs,           \* State.outputs
  configuring,       \* toplevels between xdg_toplevel and xdg_surface.configure
  news,              \* what the last handler pushed for each surface
  told               \* history: what the consumer knows of a surface once it
                     \* got every event pushed so far
vars == <<built, alive, st, outputs, configuring, news, told>>

Fresh ==
  [current_size |-> 0, scale_factor |-> 120,
   last_emitted_size |-> 0, last_emitted_scale |-> 0,
   fractional |-> None, touched |-> {}, suspended |-> FALSE, viewport |-> None]

\* an output that has no OutputState yet
NoOutput == [known |-> FALSE, scale |-> 1, ready |-> FALSE]

Silence == [resized |-> None, scale |-> None, suggested |-> None,
            occluded |-> "same", redraw |-> FALSE, close |-> FALSE]

Init ==
  /\ built = {} /\ alive = {} /\ configuring = {}
  /\ st = [s \in Surfaces |-> Fresh]
  /\ outputs = [o \in Outputs |-> NoOutput]
  /\ news = [s \in Surfaces |-> Silence]
  /\ told = [s \in Surfaces |-> [size |-> 0, scale |-> None, occluded |-> "visible"]]

\* The handler pushed n[s] for each surface s.
Push(n) ==
  /\ news' = n
  /\ told' = [s \in Surfaces |->
       [size |-> IF n[s].resized = None THEN told[s].size ELSE n[s].resized,
        scale |-> IF n[s].scale = None THEN told[s].scale ELSE n[s].scale,
        occluded |-> IF n[s].occluded = "same" THEN told[s].occluded
                     ELSE n[s].occluded]]

PushOne(s, n) == Push([r \in Surfaces |-> IF r = s THEN n ELSE Silence])
PushNothing == Push([s \in Surfaces |-> Silence])
-----------------------------------------------------------------------------
(* Scale.                                                                  *)

AtLeastOne_Missing(n) == n

AtLeastOne(n) == IF n < 1 THEN 1 ELSE n

\* resolved_scale_for_toplevel and its twin for layer surfaces
Resolved(r, outs) ==
  IF r.fractional # None THEN r.fractional
  ELSE IF r.touched = {} THEN 120
  ELSE 120 * Max({outs[o].scale : o \in r.touched})

Rescaled(r, outs) == [r EXCEPT !.scale_factor = Resolved(r, outs)]

\* ScaleFactorChanged, if the scale moved; the emission does not touch
\* last_emitted_scale
ScaleNews_AgainstConfigure(old, new) ==
  IF old.last_emitted_scale = new.scale_factor THEN Silence
  ELSE [Silence EXCEPT !.scale = new.scale_factor, !.suggested = new.current_size]

ScaleNews(old, new) ==
  IF old.scale_factor = new.scale_factor THEN Silence
  ELSE [Silence EXCEPT !.scale = new.scale_factor, !.suggested = new.current_size]
-----------------------------------------------------------------------------
(* wl_output and wl_surface.enter / leave.                                 *)

\* The first event of an output makes its entry, with scale 1; every event but
\* done leaves it not ready.
OutputScale(o, factor) ==
  /\ outputs' = [outputs EXCEPT ![o].known = TRUE, ![o].ready = FALSE,
                                ![o].scale = AtLeastOne(factor)]
  /\ PushNothing
  /\ UNCHANGED <<built, alive, st, configuring>>

\* Geometry, Mode, Name and Description, whose values are left out
OutputOther(o) ==
  /\ outputs' = [outputs EXCEPT ![o].known = TRUE, ![o].ready = FALSE]
  /\ PushNothing
  /\ UNCHANGED <<built, alive, st, configuring>>

\* recompute_scale_for_outputs: every surface with an entry, its handle dropped
\* or not, that touches o
Rescale_ToplevelsOnly(o, outs) ==
  st' = [s \in Surfaces |->
           IF s \in Toplevels /\ o \in st[s].touched THEN Rescaled(st[s], outs) ELSE st[s]]

Rescale(o, outs) ==
  st' = [s \in Surfaces |->
           IF o \in st[s].touched THEN Rescaled(st[s], outs) ELSE st[s]]

OutputDone(o) ==
  /\ outputs' = [outputs EXCEPT ![o].known = TRUE, ![o].ready = TRUE]
  /\ Rescale(o, outputs')
  /\ Push([s \in Surfaces |-> ScaleNews(st[s], st'[s])])
  /\ UNCHANGED <<built, alive, configuring>>

\* update_touched_outputs
SetTouched(s, touched, outs) ==
  LET new == Rescaled([st[s] EXCEPT !.touched = touched], outs)
  IN /\ st' = [st EXCEPT ![s] = new]
     /\ PushOne(s, ScaleNews(st[s], new))

\* An output that never reported anything gets its entry here.
SurfaceEnter(s, o) ==
  /\ s \in alive
  /\ outputs' = [outputs EXCEPT ![o].known = TRUE]
  /\ SetTouched(s, st[s].touched \cup {o}, outputs')
  /\ UNCHANGED <<built, alive, configuring>>

SurfaceLeave(s, o) ==
  /\ s \in alive /\ outputs[o].known
  /\ SetTouched(s, st[s].touched \ {o}, outputs)
  /\ UNCHANGED <<built, alive, outputs, configuring>>

PreferredScale(s, scale) ==
  /\ s \in alive
  /\ LET new == [st[s] EXCEPT !.fractional = scale, !.scale_factor = scale]
     IN /\ st' = [st EXCEPT ![s] = new]
        /\ PushOne(s, ScaleNews(st[s], new))
  /\ UNCHANGED <<built, alive, outputs, configuring>>
-----------------------------------------------------------------------------
(* Configures.                                                             *)

\* 0 leaves the size to us: the current one, or the builder's at first
Chosen_Zero(s, size) == size

Chosen(s, size) ==
  IF size > 0 THEN size
  ELSE IF st[s].current_size > 0 THEN st[s].current_size ELSE Preferred[s]

\* Emit what moved since the last configure that emitted it, and always a
\* redraw.
Announced_SizeForgotten(r) ==
  [r EXCEPT !.last_emitted_scale = r.scale_factor,
            !.viewport = IF r.current_size < 1 THEN 1 ELSE r.current_size]

Announced(r) ==
  [r EXCEPT !.last_emitted_size = r.current_size,
            !.last_emitted_scale = r.scale_factor,
            !.viewport = IF r.current_size < 1 THEN 1 ELSE r.current_size]

ConfigureNews(r) ==
  [Silence EXCEPT
     !.resized = IF r.current_size = r.last_emitted_size THEN None ELSE r.current_size,
     !.scale = IF r.scale_factor = r.last_emitted_scale THEN None ELSE r.scale_factor,
     !.suggested = IF r.scale_factor = r.last_emitted_scale THEN None ELSE r.current_size,
     !.redraw = TRUE]

\* Occluded only on a flip
OcclusionNews(s, suspended) ==
  [Silence EXCEPT !.occluded = IF suspended = st[s].suspended THEN "same"
                               ELSE IF suspended THEN "hidden" ELSE "visible"]

\* xdg_toplevel.configure: size and states
XdgToplevelConfigure(s, size, suspended) ==
  /\ s \in alive \cap Toplevels
  /\ configuring' = configuring \cup {s}
  /\ st' = [st EXCEPT ![s].current_size = Chosen(s, size), ![s].suspended = suspended]
  /\ PushOne(s, OcclusionNews(s, suspended))
  /\ UNCHANGED <<built, alive, outputs>>

\* The ack and everything that follows; r is the state at the ack.
Acknowledge_LateNews(s, r) ==
  /\ st' = [st EXCEPT ![s] = Announced(r)]
  /\ PushOne(s, ConfigureNews(Announced(r)))
  /\ UNCHANGED <<built, alive, outputs>>

Acknowledge(s, r) ==
  /\ st' = [st EXCEPT ![s] = Announced(r)]
  /\ PushOne(s, ConfigureNews(r))
  /\ UNCHANGED <<built, alive, outputs>>

\* xdg_surface.configure closes the sequence its xdg_toplevel.configure opened.
XdgSurfaceConfigure(s) ==
  /\ s \in configuring
  /\ configuring' = configuring \ {s}
  /\ Acknowledge(s, st[s])

\* A layer surface with no size of its own gets one from the compositor.
LayerConfigure(s, size) ==
  /\ s \in alive \cap LayerSurfaces
  /\ Preferred[s] = 0 => size > 0
  /\ Acknowledge(s, [st[s] EXCEPT !.current_size = Chosen(s, size)])
  /\ UNCHANGED configuring

\* xdg_toplevel.close and zwlr_layer_surface.closed
CloseRequested(s) ==
  /\ s \in alive
  /\ PushOne(s, [Silence EXCEPT !.close = TRUE])
  /\ UNCHANGED <<built, alive, st, outputs, configuring>>

\* drain_redraw_requests: flagged are the surfaces whose request_redraw() came
\* since the last drain.  Neither the request nor the drain looks at a size, and
\* a flag outlives its handle.
DrainRedrawRequests(flagged) ==
  /\ flagged \subseteq built
  /\ Push([s \in Surfaces |-> [Silence EXCEPT !.redraw = s \in flagged]])
  /\ UNCHANGED <<built, alive, st, outputs, configuring>>
-----------------------------------------------------------------------------
(* Handles.                                                                *)

Build(s) ==
  /\ s \notin built /\ Cardinality(built) < MaxBuilt
  /\ built' = built \cup {s} /\ alive' = alive \cup {s}
  /\ PushNothing
  /\ UNCHANGED <<st, outputs, configuring>>

\* Drop destroys the protocol objects, so no event for them is dispatched any
\* more; the state entry stays.
DropHandle(s) ==
  /\ s \in alive
  /\ alive' = alive \ {s}
  /\ configuring' = configuring \ {s}
  /\ PushNothing
  /\ UNCHANGED <<built, st, outputs>>

Next ==
  \/ \E o \in Outputs :
       \/ \E f \in Factors : OutputScale(o, f)
       \/ OutputOther(o) \/ OutputDone(o)
  \/ \E s \in Surfaces :
       \/ \E o \in Outputs : SurfaceEnter(s, o) \/ SurfaceLeave(s, o)
       \/ \E f \in Fractions : PreferredScale(s, f)
       \/ \E z \in Sizes :
            \/ \E b \in BOOLEAN : XdgToplevelConfigure(s, z, b)
            \/ LayerConfigure(s, z)
       \/ XdgSurfaceConfigure(s)
       \/ CloseRequested(s) \/ Build(s) \/ DropHandle(s)
  \/ \E flagged \in SUBSET built : DrainRedrawRequests(flagged)

Spec == Init /\ [][Next]_vars
-----------------------------------------------------------------------------
(* Properties.                                                             *)

OutputScales == {f \in Factors \cup {1} : f >= 1}
Scales == {120 * n : n \in OutputScales} \cup Fractions
AllSizes == Sizes \cup {0} \cup {Preferred[s] : s \in Surfaces}
OutputStates == [known : BOOLEAN, scale : OutputScales, ready : BOOLEAN]
States == [current_size : AllSizes, scale_factor : Scales,
           last_emitted_size : AllSizes, last_emitted_scale : Scales \cup {0},
           fractional : Fractions \cup {None}, touched : SUBSET Outputs,
           suspended : BOOLEAN, viewport : AllSizes \cup {1, None}]

\* Every variable keeps its type; a live handle has an entry, and only a live
\* toplevel is in the middle of a configure.
TypeOK ==
  /\ alive \subseteq built /\ built \subseteq Surfaces
  /\ configuring \subseteq alive \cap Toplevels
  /\ st \in [Surfaces -> States]
  /\ outputs \in [Outputs -> OutputStates]
  /\ told \in [Surfaces -> [size : AllSizes, scale : Scales \cup {None},
                            occluded : {"visible", "hidden"}]]

\* The scale of a surface is the rule applied to what is known now (fractional
\* scale, else the largest scale of the outputs it touches), except while one
\* of those outputs is in the middle of an update.
ScaleCoherent ==
  \A s \in Surfaces :
    st[s].scale_factor = Resolved(st[s], outputs)
      \/ \E o \in st[s].touched : ~outputs[o].ready

\* Whatever path a scale takes (output, enter, leave, fractional, configure),
\* a consumer that handles its events knows the scale scale_factor() returns.
ScaleTold ==
  \A s \in Surfaces :
    IF told[s].scale = None THEN st[s].scale_factor = 120
    ELSE told[s].scale = st[s].scale_factor

\* Outside a configure sequence it also knows the size size() returns; whether
\* is_occluded() holds it knows always, Occluded being sent with the state.
ConfigureTold ==
  \A s \in Surfaces :
    /\ s \in alive \ configuring => told[s].size = st[s].current_size
    /\ told[s].occluded = IF st[s].suspended THEN "hidden" ELSE "visible"

\* No Resized repeats the size the consumer was told last (dedupe of
\* reconfigures, over both configure paths), and no output, enter, leave or
\* fractional scale repeats the scale it was told last: a ScaleFactorChanged
\* that says nothing new can only come with the redraw of a configure.
ToldOnce ==
  [][\A s \in Surfaces :
       /\ news'[s].resized # None => news'[s].resized # told[s].size
       /\ news'[s].scale # None /\ news'[s].scale = told[s].scale
            => news'[s].redraw]_vars

\* A redraw that was requested before the first configure: it is handed over
\* although the surface has neither a size nor a viewport.
EarlyRequest(s) == st[s].viewport = None /\ st'[s] = st[s]

\* But for that, a surface is asked to draw, by a configure or by a request
\* that was drained at any time (in the middle of a configure sequence too),
\* only when it was told a size and the viewport covers that size.  It holds for
\* a layer surface and for a toplevel whose builder asked for a size: another
\* toplevel, left without a size by the compositor as well, draws at 0.
DrawnAtToldSize ==
  [][\A s \in Surfaces :
       news'[s].redraw /\ ~EarlyRequest(s) /\ (Preferred[s] > 0 \/ s \in LayerSurfaces) =>
         told'[s].size > 0 /\ st'[s].viewport = told'[s].size]_vars

\* No ScaleFactorChanged repeats the scale told last ("Scale last surfaced to
\* the consumer", ToplevelState::last_emitted_scale).
NoDuplicateScale ==
  [][\A s \in Surfaces : news'[s].scale # None => news'[s].scale # told[s].scale]_vars
=============================================================================
