-------------------------- MODULE Workspace_proofs ---------------------------
(***************************************************************************)
(* Proofs about the connected workspace: the setup journey (Setup over     *)
(* Wizard) with its draft, its types and its gate, the measure picker with *)
(* its selections and its types, the control session (Session), and the    *)
(* workspace they are parts of.                                            *)
(***************************************************************************)
EXTENDS MCWorkspace, FiniteSetTheorems, TLAPS

-----------------------------------------------------------------------------
(* Setup.  Every event of the wizard is an operator from a wizard to the set *)
(* of its results; a wizard is whole when no step that was passed lacks its  *)
(* value, and its picker agrees with the values of the steps passed, and of  *)
(* the first step also while it is at it.                                    *)

WizFields == {"step", "values", "picker", "auth", "mode", "adapters"}
WizShape(w) == \A k \in WizFields : k \in DOMAIN w
PickerFields == {"catalog", "kind", "cursor", "query", "agents", "provider", "model"}
PickerShape(c) == \A k \in PickerFields : k \in DOMAIN c
WizSteps == 1..7
PickerAgrees(step, values, c) ==
    /\ PickerShape(c)
    /\ step \in WizCatalogSteps => c.kind = step
    /\ \A s \in WizCatalogSteps : s < step => values[s] = selected_ids(c, s)
    /\ step = WizAgent /\ c.agents # {} => values[WizAgent] = c.agents
    /\ step > WizProvider => c.agents \subseteq c.catalog.compatible[c.provider]
    /\ step > WizModel => c.provider \in c.catalog.compatible[c.model]
WizWhole(w) ==
    /\ WizShape(w)
    /\ w.step \in 1..8 /\ DOMAIN w.values = WizSteps
    /\ \A s \in WizSteps : s < w.step => w.values[s] # {}
    /\ w.picker # WizNone => PickerAgrees(w.step, w.values, w.picker)

(* The picker also agrees at the step the wizard is at, which may be left.   *)
WizReady(w) ==
    w.picker # WizNone =>
        /\ w.step \in WizCatalogSteps => w.values[w.step] = selected_ids(w.picker, w.step)
        /\ w.step = WizProvider => w.picker.agents \subseteq w.picker.catalog.compatible[w.picker.provider]
        /\ w.step = WizModel => w.picker.provider \in w.picker.catalog.compatible[w.picker.model]

(* An option that can be chosen exists and fits what was chosen before it. *)
LEMMA WizFocusedFits ==
    ASSUME NEW c, NEW o \in WizFocused(c)
    PROVE  /\ o # WizNone
           /\ c.kind = WizProvider => c.agents # {} /\ c.agents \subseteq c.catalog.compatible[o]
           /\ c.kind = WizModel => c.provider \in c.catalog.compatible[o]
<1>1. PICK i \in visible_options(c) : o = WizOrder[i]
    BY DEF WizFocused
<1>2. i \in DOMAIN WizOrder
    BY <1>1 DEF visible_options
<1>3. o \in WizId
    BY <1>1, <1>2, WizAssumption DEF WizId
<1>4. /\ c.kind = WizProvider => c.agents # {} /\ c.agents \subseteq c.catalog.compatible[o]
      /\ c.kind = WizModel => c.provider \in c.catalog.compatible[o]
    BY <1>1 DEF visible_options, WizAgent, WizProvider, WizModel
<1> QED BY <1>3, <1>4, WizAssumption

(* A picker that is new agrees with whatever the first step holds. *)
LEMMA WizNewPicker ==
    ASSUME NEW catalog, NEW values PROVE PickerAgrees(WizAgent, values, NewPicker(catalog))
BY DEF PickerAgrees, PickerShape, PickerFields, NewPicker, WizAgent, WizProvider, WizModel, WizCatalogSteps

(* Pickers that differ in what they look at only agree with the same. *)
LEMMA PickerLooks ==
    ASSUME NEW c, NEW d, PickerShape(d), d.catalog = c.catalog, d.agents = c.agents,
           d.provider = c.provider, d.model = c.model
    PROVE  /\ \A s \in WizCatalogSteps : selected_ids(d, s) = selected_ids(c, s)
           /\ \A step, values : /\ PickerAgrees(step, values, c)
                                /\ step \in WizCatalogSteps => d.kind = step
                                => PickerAgrees(step, values, d)
<1>1. \A s \in WizCatalogSteps : selected_ids(d, s) = selected_ids(c, s)
    BY DEF selected_ids, WizCatalogSteps, WizAgent, WizProvider, WizModel
<1>2. ASSUME NEW step, NEW values, PickerAgrees(step, values, c), step \in WizCatalogSteps => d.kind = step
      PROVE  PickerAgrees(step, values, d)
    BY <1>1, <1>2 DEF PickerAgrees
<1> QED BY <1>1, <1>2

LEMMA WizFresh ==
    ASSUME NEW picker, NEW mode, NEW adapters,
           picker # WizNone => \E catalog : picker = NewPicker(catalog)
    PROVE  LET w == NewWizard(picker, mode, adapters)
           IN  WizWhole(w) /\ w.step = WizAgent /\ w.picker = picker /\ w.values = WizNoValues
<1> DEFINE w == NewWizard(picker, mode, adapters)
<1>1. WizShape(w) /\ w.step = WizAgent /\ w.values = WizNoValues /\ w.picker = picker
    BY DEF NewWizard, WizShape, WizFields
<1>2. DOMAIN WizNoValues = WizSteps
    BY DEF WizNoValues, WizSteps, WizStep, WizAgent, WizReview
<1>3. WizAgent \in 1..8 /\ \A s \in WizSteps : ~(s < WizAgent)
    BY DEF WizAgent, WizSteps
<1>4. picker # WizNone => PickerAgrees(WizAgent, WizNoValues, picker)
    BY WizNewPicker
<1> HIDE DEF w
<1>5. WizWhole(w)
    BY <1>1, <1>2, <1>3, <1>4 DEF WizWhole
<1> QED BY <1>1, <1>5 DEF w

(* The picker follows the wizard to another step. *)
LEMMA WizFollows ==
    ASSUME NEW w, WizShape(w), w.picker # WizNone => PickerShape(w.picker)
    PROVE  LET k == select_kind_for_step(w)
           IN  /\ WizShape(k) /\ k.step = w.step /\ k.values = w.values
               /\ w.picker = WizNone => k.picker = WizNone
               /\ k.picker # WizNone =>
                    /\ w.picker # WizNone /\ PickerShape(k.picker)
                    /\ k.step \in WizCatalogSteps => k.picker.kind = k.step
                    /\ k.picker.catalog = w.picker.catalog /\ k.picker.agents = w.picker.agents
                    /\ k.picker.provider = w.picker.provider /\ k.picker.model = w.picker.model
<1> DEFINE c == set_kind(w.picker, w.step)
           v == [w EXCEPT !.picker = c]
           k == select_kind_for_step(w)
<1>1. CASE ~(w.picker # WizNone /\ w.step \in WizCatalogSteps)
    BY <1>1 DEF select_kind_for_step
<1>2. CASE w.picker # WizNone /\ w.step \in WizCatalogSteps
  <2>1. /\ PickerShape(c) /\ c.kind = w.step /\ c.catalog = w.picker.catalog /\ c.agents = w.picker.agents
        /\ c.provider = w.picker.provider /\ c.model = w.picker.model
      BY <1>2 DEF set_kind, PickerShape, PickerFields
  <2>2. k = v
      BY <1>2 DEF select_kind_for_step
  <2> HIDE DEF c, k
  <2>3. WizShape(v) /\ v.step = w.step /\ v.values = w.values /\ v.picker = c
      BY DEF WizShape, WizFields
  <2> HIDE DEF v
  <2>4. WizShape(k) /\ k.step = w.step /\ k.values = w.values /\ k.picker = c
      BY <2>2, <2>3
  <2> QED BY <1>2, <2>1, <2>4 DEF k
<1> QED BY <1>1, <1>2

(* Going on: the step that is left has its value and the picker agrees.      *)
LEMMA WizAdvance ==
    ASSUME NEW w, WizWhole(w), WizReady(w), NEW v \in advance(w)
    PROVE  WizWhole(v)
<1> DEFINE n == w.step + 1
           u == [w EXCEPT !.step = n]
           k == select_kind_for_step(u)
           c == k.picker
<1>1. w.step \in 1..7 /\ w.values[w.step] # {} /\ v = ensure_bounded_default(k)
    BY DEF advance, current_value, WizWhole, WizReview
<1>2. n \in 2..8
    BY <1>1
<1>3. WizShape(u) /\ u.step = n /\ u.values = w.values /\ u.picker = w.picker
    BY DEF WizWhole, WizShape, WizFields
<1>4. \A s \in WizSteps : s < n => w.values[s] # {}
    BY <1>1, <1>2 DEF WizWhole, WizSteps
<1> HIDE DEF u
<1>5. /\ WizShape(k) /\ k.step = n /\ k.values = w.values
      /\ c # WizNone => /\ w.picker # WizNone /\ PickerShape(c)
                        /\ n \in WizCatalogSteps => c.kind = n
                        /\ c.catalog = w.picker.catalog /\ c.agents = w.picker.agents
                        /\ c.provider = w.picker.provider /\ c.model = w.picker.model
    BY <1>3, WizFollows DEF WizWhole, PickerAgrees
<1> HIDE DEF k
<1>6. c # WizNone => PickerAgrees(n, w.values, c)
  <2> SUFFICES ASSUME c # WizNone PROVE PickerAgrees(n, w.values, c)
      OBVIOUS
  <2>1. w.picker # WizNone /\ PickerAgrees(w.step, w.values, w.picker)
      BY <1>5 DEF WizWhole
  <2> HIDE DEF c
  <2>3. \A s \in WizCatalogSteps : selected_ids(c, s) = selected_ids(w.picker, s)
      BY <1>5, PickerLooks
  <2>4. \A s \in WizCatalogSteps : s < n => w.values[s] = selected_ids(c, s)
      BY <1>1, <2>1, <2>3 DEF PickerAgrees, WizReady, WizCatalogSteps, WizAgent, WizProvider, WizModel
  <2>5. n > WizProvider => c.agents \subseteq c.catalog.compatible[c.provider]
      BY <1>1, <1>5, <2>1 DEF PickerAgrees, WizReady, WizProvider
  <2>6. n > WizModel => c.provider \in c.catalog.compatible[c.model]
      BY <1>1, <1>5, <2>1 DEF PickerAgrees, WizReady, WizModel
  <2> HIDE DEF n
  <2> QED BY <1>2, <1>5, <2>4, <2>5, <2>6 DEF PickerAgrees, WizAgent
<1> HIDE DEF c, n
<1>7. CASE v = k
  <2>1. n \in 1..8 /\ DOMAIN w.values = WizSteps
      BY <1>2 DEF WizWhole
  <2> QED BY <1>4, <1>5, <1>6, <1>7, <2>1 DEF WizWhole, c
<1>8. CASE n \in WizBoundedSteps /\ v = [k EXCEPT !.values[k.step] = {bounded_choices[k.step][1]}]
  <2> DEFINE x == {bounded_choices[k.step][1]}
             vs == [w.values EXCEPT ![n] = x]
  <2> HIDE DEF x
  <2>1. v = [k EXCEPT !.values[k.step] = x]
      BY <1>8 DEF x
  <2>2. WizShape(v) /\ v.step = n /\ v.values = vs /\ v.picker = c
      BY <1>5, <2>1 DEF WizShape, WizFields, c
  <2>3. n \in WizSteps /\ n > 3
      BY <1>8 DEF WizBoundedSteps, WizSteps, WizConfiguration, WizAuthentication, WizRecording, WizReplay
  <2>4. DOMAIN vs = WizSteps /\ \A s \in WizSteps : s < n => vs[s] = w.values[s]
      BY <2>3 DEF WizWhole, WizSteps
  <2>5. c # WizNone => PickerAgrees(n, vs, c)
      BY <1>6, <2>3, <2>4 DEF PickerAgrees, WizCatalogSteps, WizSteps, WizAgent, WizProvider, WizModel
  <2>6. n \in 1..8
      BY <1>2
  <2> HIDE DEF vs
  <2> QED BY <1>4, <2>2, <2>4, <2>5, <2>6 DEF WizWhole
<1> QED BY <1>1, <1>5, <1>7, <1>8 DEF ensure_bounded_default

(* Going back, and giving up: nothing is required of the steps ahead. *)
LEMMA WizBack ==
    ASSUME NEW w, WizWhole(w), NEW v \in back(w)
    PROVE  WizWhole(v)
<1> DEFINE n == w.step - 1
           u == [w EXCEPT !.step = n]
           c == v.picker
<1>1. w.step \in 2..8 /\ v = select_kind_for_step(u)
    BY DEF back, WizWhole, WizAgent
<1>2. n \in 1..7 /\ n < w.step
    BY <1>1
<1>3. WizShape(u) /\ u.step = n /\ u.values = w.values /\ u.picker = w.picker
    BY DEF WizWhole, WizShape, WizFields
<1> HIDE DEF u
<1>4. /\ WizShape(v) /\ v.step = n /\ v.values = w.values
      /\ c # WizNone => /\ w.picker # WizNone /\ PickerShape(c)
                        /\ n \in WizCatalogSteps => c.kind = n
                        /\ c.catalog = w.picker.catalog /\ c.agents = w.picker.agents
                        /\ c.provider = w.picker.provider /\ c.model = w.picker.model
    BY <1>1, <1>3, WizFollows DEF WizWhole, PickerAgrees
<1>5. c # WizNone => PickerAgrees(n, w.values, c)
  <2> SUFFICES ASSUME c # WizNone PROVE PickerAgrees(n, w.values, c)
      OBVIOUS
  <2>1. w.picker # WizNone /\ PickerAgrees(w.step, w.values, w.picker)
      BY <1>4 DEF WizWhole
  <2> HIDE DEF c
  <2>3. \A s \in WizCatalogSteps : selected_ids(c, s) = selected_ids(w.picker, s)
      BY <1>4, PickerLooks
  <2>4. \A s \in WizCatalogSteps : s < w.step => w.values[s] = selected_ids(c, s)
      BY <2>1, <2>3 DEF PickerAgrees
  <2>5. w.values[WizAgent] = c.agents
    <3>1. selected_ids(c, WizAgent) = c.agents
        BY DEF selected_ids, WizAgent, WizProvider, WizModel
    <3>2. WizAgent \in WizCatalogSteps /\ WizAgent < w.step
        BY <1>1 DEF WizCatalogSteps, WizAgent
    <3> QED BY <2>4, <3>1, <3>2
  <2>6. w.step > WizProvider => c.agents \subseteq c.catalog.compatible[c.provider]
      BY <1>4, <2>1 DEF PickerAgrees
  <2>7. w.step > WizModel => c.provider \in c.catalog.compatible[c.model]
      BY <1>4, <2>1 DEF PickerAgrees
  <2>8. /\ \A s \in WizCatalogSteps : s < n => s < w.step
        /\ n > WizProvider => w.step > WizProvider
        /\ n > WizModel => w.step > WizModel
      BY <1>1, <1>2 DEF WizCatalogSteps, WizAgent, WizProvider, WizModel
  <2> HIDE DEF n
  <2> QED BY <1>4, <2>4, <2>5, <2>6, <2>7, <2>8 DEF PickerAgrees
<1>6. n \in 1..8 /\ DOMAIN w.values = WizSteps
    BY <1>2 DEF WizWhole
<1>7. \A s \in WizSteps : s < n => w.values[s] # {}
    BY <1>1, <1>2 DEF WizWhole, WizSteps
<1> HIDE DEF n
<1> QED BY <1>4, <1>5, <1>6, <1>7 DEF WizWhole, c

LEMMA WizCancel ==
    ASSUME NEW w, WizWhole(w) PROVE WizWhole(cancel(w))
<1> DEFINE v == cancel(w)
           c == IF w.picker = WizNone THEN WizNone ELSE reset_draft(w.picker)
<1>1. WizShape(v) /\ v.step = WizAgent /\ v.values = WizNoValues /\ v.picker = c
    BY DEF cancel, WizWhole, WizShape, WizFields
<1>2. c # WizNone => PickerAgrees(WizAgent, WizNoValues, c)
    BY WizNewPicker DEF reset_draft
<1>3. DOMAIN WizNoValues = WizSteps
    BY DEF WizNoValues, WizSteps, WizStep, WizAgent, WizReview
<1>4. WizAgent \in 1..8 /\ \A s \in WizSteps : ~(s < WizAgent)
    BY DEF WizAgent, WizSteps
<1> HIDE DEF v, c
<1>5. WizWhole(v)
    BY <1>1, <1>2, <1>3, <1>4 DEF WizWhole
<1> QED BY <1>5 DEF v

(* Another value for the step the wizard is at: where there is a picker, the *)
(* step is none of its own.                                                  *)
LEMMA WizValue ==
    ASSUME NEW w, WizWhole(w), w.step \in WizSteps, w.picker # WizNone => w.step \notin WizCatalogSteps,
           NEW x, NEW v, WizShape(v), v.step = w.step, v.picker = w.picker,
           v.values = [w.values EXCEPT ![w.step] = x]
    PROVE  WizWhole(v)
<1> DEFINE n == w.step
           vs == [w.values EXCEPT ![n] = x]
<1>1. /\ n \in 1..8 /\ DOMAIN vs = WizSteps
      /\ \A s \in WizSteps : s < n => vs[s] = w.values[s]
    BY DEF WizWhole, WizSteps
<1>2. \A s \in WizSteps : s < n => vs[s] # {}
    BY <1>1 DEF WizWhole
<1>3. w.picker # WizNone => PickerAgrees(n, vs, w.picker)
  <2> SUFFICES ASSUME w.picker # WizNone PROVE PickerAgrees(n, vs, w.picker)
      OBVIOUS
  <2>1. PickerAgrees(n, w.values, w.picker) /\ n \notin WizCatalogSteps
      BY DEF WizWhole
  <2>2. \A s \in WizCatalogSteps : s \in WizSteps
      BY DEF WizCatalogSteps, WizSteps, WizAgent, WizProvider, WizModel
  <2> HIDE DEF vs, n
  <2> QED BY <1>1, <2>1, <2>2 DEF PickerAgrees, WizCatalogSteps
<1>4. v.step = n /\ v.values = vs
    OBVIOUS
<1> HIDE DEF vs, n
<1> QED BY <1>1, <1>2, <1>3, <1>4 DEF WizWhole

LEMMA WizText ==
    ASSUME NEW w, WizWhole(w), w.picker = WizNone \/ w.step \notin WizCatalogSteps,
           NEW x, NEW v \in set_value(w, x)
    PROVE  WizWhole(v)
<1>1. w.step \in WizSteps /\ v = [w EXCEPT !.values[w.step] = x]
    BY DEF set_value, WizWhole, WizSteps, WizReview
<1>2. WizShape(v) /\ v.step = w.step /\ v.picker = w.picker /\ v.values = [w.values EXCEPT ![w.step] = x]
    BY <1>1 DEF WizWhole, WizShape, WizFields
<1> QED BY <1>1, <1>2, WizValue

LEMMA WizBounded ==
    ASSUME NEW w, WizWhole(w), NEW v \in move_bounded_choice(w)
    PROVE  WizWhole(v)
<1>1. PICK x : w.step \in WizBoundedSteps /\ v = [w EXCEPT !.values[w.step] = x]
    BY Zenon DEF move_bounded_choice
<1>2. w.step \in WizSteps /\ w.step \notin WizCatalogSteps
    BY <1>1 DEF WizBoundedSteps, WizCatalogSteps, WizSteps, WizAgent, WizProvider, WizModel,
                WizConfiguration, WizAuthentication, WizRecording, WizReplay
<1>3. WizShape(v) /\ v.step = w.step /\ v.picker = w.picker /\ v.values = [w.values EXCEPT ![w.step] = x]
    BY <1>1 DEF WizWhole, WizShape, WizFields
<1> QED BY <1>2, <1>3, WizValue

LEMMA WizCredential ==
    ASSUME NEW w, WizWhole(w), w.step = WizAuthentication,
           NEW e \in {"Enroll", "Test", "Rotate", "Reset", "SelectFixture", "SelectNone", "Restart"},
           NEW v \in DevelopmentAuth(w, e)
    PROVE  WizWhole(v)
<1>1. \/ v = w
      \/ \E y, x : v = [w EXCEPT !.auth.enrolled = y, !.values[WizAuthentication] = x]
      \/ \E y, x : v = [w EXCEPT !.auth.method = y, !.values[WizAuthentication] = x]
      \/ \E y, x : v = [w EXCEPT !.auth = y, !.values[WizAuthentication] = x]
    BY DEF DevelopmentAuth
<1>2. w.step \in WizSteps /\ w.step \notin WizCatalogSteps /\ WizShape(w)
    BY DEF WizWhole, WizCatalogSteps, WizSteps, WizAgent, WizProvider, WizModel, WizAuthentication
<1>3. ASSUME NEW y, NEW x, v = [w EXCEPT !.auth.enrolled = y, !.values[WizAuthentication] = x]
      PROVE  WizWhole(v)
  <2>1. WizShape(v) /\ v.step = w.step /\ v.picker = w.picker /\ v.values = [w.values EXCEPT ![w.step] = x]
      BY <1>2, <1>3 DEF WizShape, WizFields
  <2> QED BY <1>2, <2>1, WizValue
<1>4. ASSUME NEW y, NEW x, v = [w EXCEPT !.auth.method = y, !.values[WizAuthentication] = x]
      PROVE  WizWhole(v)
  <2>1. WizShape(v) /\ v.step = w.step /\ v.picker = w.picker /\ v.values = [w.values EXCEPT ![w.step] = x]
      BY <1>2, <1>4 DEF WizShape, WizFields
  <2> QED BY <1>2, <2>1, WizValue
<1>5. ASSUME NEW y, NEW x, v = [w EXCEPT !.auth = y, !.values[WizAuthentication] = x]
      PROVE  WizWhole(v)
  <2>1. WizShape(v) /\ v.step = w.step /\ v.picker = w.picker /\ v.values = [w.values EXCEPT ![w.step] = x]
      BY <1>2, <1>5 DEF WizShape, WizFields
  <2> QED BY <1>2, <2>1, WizValue
<1> QED BY <1>1, <1>3, <1>4, <1>5

(* Searching and moving in the picker. *)
LEMMA WizLooks ==
    ASSUME NEW w, WizWhole(w), w.picker # WizNone,
           NEW d, \/ \E q : d = set_query(w.picker, q)
                  \/ \E down : d = move_cursor(w.picker, down)
    PROVE  WizWhole([w EXCEPT !.picker = d])
<1> DEFINE v == [w EXCEPT !.picker = d]
<1>1. PickerAgrees(w.step, w.values, w.picker)
    BY DEF WizWhole
<1>2. \/ \E q : d = [w.picker EXCEPT !.query = q, !.cursor = 1]
      \/ \E k : d = [w.picker EXCEPT !.cursor = k]
    BY DEF set_query, move_cursor
<1>3. /\ PickerShape(d) /\ d.kind = w.picker.kind /\ d.catalog = w.picker.catalog
      /\ d.agents = w.picker.agents /\ d.provider = w.picker.provider /\ d.model = w.picker.model
    BY <1>1, <1>2 DEF PickerAgrees, PickerShape, PickerFields
<1>4. w.step \in WizCatalogSteps => d.kind = w.step
    BY <1>1, <1>3 DEF PickerAgrees
<1>5. PickerAgrees(w.step, w.values, d)
    BY <1>1, <1>3, <1>4, PickerLooks
<1>6. WizShape(v) /\ v.step = w.step /\ v.values = w.values /\ v.picker = d
    BY DEF WizWhole, WizShape, WizFields
<1> HIDE DEF v
<1>7. WizWhole(v)
    BY <1>5, <1>6 DEF WizWhole
<1> QED BY <1>7 DEF v

(* A value taken from the picker: the picker was at the step's list and the  *)
(* choice fits the ones before it; another choice drops the ones after it.   *)
LEMMA WizTaken ==
    ASSUME NEW w, WizWhole(w), w.picker # WizNone, w.step \in WizCatalogSteps,
           NEW d, PickerShape(d), d.kind = w.step, d.catalog = w.picker.catalog,
           \A s \in WizCatalogSteps : s < w.step => selected_ids(d, s) = selected_ids(w.picker, s),
           w.step > WizProvider => d.agents = w.picker.agents /\ d.provider = w.picker.provider,
           w.step = WizProvider => d.agents \subseteq d.catalog.compatible[d.provider],
           w.step = WizModel => d.provider \in d.catalog.compatible[d.model],
           NEW v, WizShape(v), v.step = w.step, v.picker = d,
           v.values = [w.values EXCEPT ![w.step] = selected_ids(d, w.step)]
    PROVE  WizWhole(v) /\ WizReady(v)
<1> DEFINE n == w.step
           x == selected_ids(d, n)
           vs == [w.values EXCEPT ![n] = x]
<1>1. n \in 1..3 /\ n \in WizSteps /\ WizCatalogSteps = 1..3
    BY DEF WizCatalogSteps, WizSteps, WizAgent, WizProvider, WizModel
<1> HIDE DEF x
<1>2. DOMAIN vs = WizSteps /\ vs[n] = x /\ \A s \in WizSteps : s < n => vs[s] = w.values[s]
    BY <1>1 DEF WizWhole, WizSteps
<1>3. \A s \in WizSteps : s < n => vs[s] # {}
    BY <1>2 DEF WizWhole
<1>4. v.step = n /\ v.values = vs
    BY DEF x
<1>5. PickerAgrees(n, w.values, w.picker)
    BY DEF WizWhole
<1> HIDE DEF vs, n
<1>6. \A s \in WizCatalogSteps : s < n => vs[s] = selected_ids(d, s)
    BY <1>1, <1>2, <1>5 DEF PickerAgrees, WizSteps, n
<1>7. n = WizAgent => vs[WizAgent] = d.agents
    BY <1>2 DEF x, selected_ids, WizAgent, WizProvider, WizModel
<1>8. n > WizProvider => d.agents \subseteq d.catalog.compatible[d.provider]
    BY <1>5 DEF PickerAgrees, n
<1>9. ~(n > WizModel)
    BY <1>1 DEF WizModel
<1>10. PickerAgrees(n, vs, d)
    BY <1>6, <1>7, <1>8, <1>9 DEF PickerAgrees, n
<1>11. WizWhole(v)
    BY <1>1, <1>2, <1>3, <1>4, <1>10 DEF WizWhole
<1>12. vs[n] = selected_ids(d, n)
    BY <1>2 DEF x
<1> QED BY <1>4, <1>11, <1>12 DEF WizReady, n

(* Enter and Space at the picker. *)
LEMMA WizAgents ==
    ASSUME NEW w, WizWhole(w), w.picker # WizNone, w.step = WizAgent,
           NEW agents, NEW v, NEW a,
           v \in set_value([w EXCEPT !.picker = WithAgents(w.picker, agents), !.auth = a], agents)
    PROVE  WizWhole(v) /\ WizReady(v)
<1> DEFINE d == WithAgents(w.picker, agents)
           u == [w EXCEPT !.picker = d, !.auth = a]
<1>1. PickerAgrees(w.step, w.values, w.picker)
    BY DEF WizWhole
<1>2. /\ PickerShape(d) /\ d.kind = w.picker.kind /\ d.catalog = w.picker.catalog /\ d.agents = agents
    BY <1>1 DEF WithAgents, PickerAgrees, PickerShape, PickerFields
<1> HIDE DEF d
<1>3. WizShape(u) /\ u.step = w.step /\ u.values = w.values /\ u.picker = d
    BY DEF WizWhole, WizShape, WizFields
<1>4. v \in set_value(u, agents)
    BY DEF d
<1> HIDE DEF u
<1>5. v = [u EXCEPT !.values[u.step] = agents]
    BY <1>4 DEF set_value
<1>6. WizShape(v) /\ v.step = w.step /\ v.picker = d /\ v.values = [w.values EXCEPT ![w.step] = agents]
    BY <1>3, <1>5 DEF WizShape, WizFields
<1>7. w.step \in WizCatalogSteps /\ d.kind = w.step
    BY <1>1, <1>2 DEF PickerAgrees, WizCatalogSteps
<1>8. agents = selected_ids(d, w.step)
    BY <1>2 DEF selected_ids, WizAgent, WizProvider, WizModel
<1>9. /\ \A s \in WizCatalogSteps : ~(s < w.step)
      /\ ~(w.step > WizProvider) /\ w.step # WizProvider /\ w.step # WizModel
    BY DEF WizCatalogSteps, WizAgent, WizProvider, WizModel
<1> QED BY <1>2, <1>6, <1>7, <1>8, <1>9, WizTaken

LEMMA WizChoose ==
    ASSUME NEW w, WizWhole(w), w.picker # WizNone, w.step \in {WizProvider, WizModel},
           NEW d \in select_cursor(w.picker), NEW a, NEW v,
           v \in set_value([w EXCEPT !.picker = d, !.auth = a], selected_ids(d, d.kind))
    PROVE  WizWhole(v) /\ WizReady(v)
<1> DEFINE c == w.picker
           u == [w EXCEPT !.picker = d, !.auth = a]
<1>1. PickerAgrees(w.step, w.values, c) /\ PickerShape(c) /\ c.kind = w.step
    BY DEF WizWhole, PickerAgrees, WizCatalogSteps
<1>2. PICK o \in WizFocused(c) :
          d = IF c.kind = WizProvider THEN [c EXCEPT !.provider = o, !.model = WizNone]
              ELSE [c EXCEPT !.model = o]
    BY DEF select_cursor
<1>3. /\ o # WizNone
      /\ w.step = WizProvider => c.agents \subseteq c.catalog.compatible[o]
      /\ w.step = WizModel => c.provider \in c.catalog.compatible[o]
    BY <1>1, WizFocusedFits
<1>4. /\ PickerShape(d) /\ d.kind = c.kind /\ d.catalog = c.catalog /\ d.agents = c.agents
      /\ w.step = WizProvider => d.provider = o
      /\ w.step = WizModel => d.provider = c.provider /\ d.model = o
    BY <1>1, <1>2 DEF PickerShape, PickerFields, WizProvider, WizModel
<1> HIDE DEF c
<1>5. WizShape(u) /\ u.step = w.step /\ u.values = w.values /\ u.picker = d
    BY DEF WizWhole, WizShape, WizFields
<1>6. v \in set_value(u, selected_ids(d, w.step))
    BY <1>1, <1>4
<1> HIDE DEF u
<1> DEFINE x == selected_ids(d, w.step)
<1> HIDE DEF x
<1>7. v = [u EXCEPT !.values[u.step] = x]
    BY <1>6 DEF set_value, x
<1>8. WizShape(v) /\ v.step = w.step /\ v.picker = d /\ v.values = [w.values EXCEPT ![w.step] = x]
    BY <1>5, <1>7 DEF WizShape, WizFields
<1>9. \A s \in WizCatalogSteps : s < w.step => selected_ids(d, s) = selected_ids(c, s)
    BY <1>4 DEF selected_ids, WizCatalogSteps, WizAgent, WizProvider, WizModel
<1>10. w.step \in WizCatalogSteps /\ (w.step > WizProvider => w.step = WizModel)
    BY DEF WizCatalogSteps, WizProvider, WizModel
<1>11. /\ w.step > WizProvider => d.agents = c.agents /\ d.provider = c.provider
       /\ w.step = WizProvider => d.agents \subseteq d.catalog.compatible[d.provider]
       /\ w.step = WizModel => d.provider \in d.catalog.compatible[d.model]
    BY <1>3, <1>4, <1>10
<1>12. d.kind = w.step /\ d.catalog = w.picker.catalog
    BY <1>1, <1>4 DEF c
<1> QED BY <1>4, <1>8, <1>9, <1>10, <1>11, <1>12, WizTaken DEF c, x

LEMMA WizSelect ==
    ASSUME NEW w, WizWhole(w), w.step \in WizCatalogSteps, NEW v \in select_catalog_cursor(w)
    PROVE  WizWhole(v) /\ WizReady(v)
<1>1. w.picker # WizNone /\ PickerAgrees(w.step, w.values, w.picker) /\ w.picker.kind = w.step
    BY DEF select_catalog_cursor, WizWhole, PickerAgrees
<1>2. PICK d \in IF w.picker.kind = WizAgent THEN toggle_agent_cursor(w.picker) ELSE select_cursor(w.picker) :
          \E a : v \in set_value([w EXCEPT !.picker = d, !.auth = a], selected_ids(d, d.kind))
    BY <1>1 DEF select_catalog_cursor
<1>3. CASE w.step = WizAgent
  <2>1. PICK agents : d = WithAgents(w.picker, agents)
      BY <1>1, <1>2, <1>3 DEF toggle_agent_cursor
  <2>2. d.kind = WizAgent /\ d.agents = agents
      BY <1>1, <1>3, <2>1 DEF WithAgents, PickerAgrees, PickerShape, PickerFields
  <2>3. selected_ids(d, d.kind) = agents
      BY <2>2 DEF selected_ids, WizAgent, WizProvider, WizModel
  <2> QED BY <1>1, <1>2, <1>3, <2>1, <2>3, WizAgents
<1>4. CASE w.step # WizAgent
    BY <1>1, <1>2, <1>4, WizChoose DEF WizCatalogSteps
<1> QED BY <1>3, <1>4

LEMMA WizAllAgents ==
    ASSUME NEW w, WizWhole(w), w.step = WizAgent, NEW v \in WizToggleVisible(w)
    PROVE  WizWhole(v)
<1>1. w.picker # WizNone /\ PickerAgrees(w.step, w.values, w.picker)
    BY DEF WizToggleVisible, WizWhole
<1>2. PICK agents : LET d == WithAgents(w.picker, agents) IN v \in set_value([w EXCEPT !.picker = d], d.agents)
    BY <1>1 DEF WizToggleVisible, toggle_visible_agents
<1> DEFINE d == WithAgents(w.picker, agents)
<1>3. d.agents = agents
    BY <1>1 DEF WithAgents, PickerAgrees, PickerShape, PickerFields
<1>4. [w EXCEPT !.picker = d] = [w EXCEPT !.picker = d, !.auth = w.auth]
    BY DEF WizWhole, WizShape, WizFields
<1> HIDE DEF d
<1>5. v \in set_value([w EXCEPT !.picker = d, !.auth = w.auth], agents)
    BY <1>2, <1>3, <1>4 DEF d
<1> QED BY <1>1, <1>5, WizAgents DEF d

-----------------------------------------------------------------------------
(* The workspace.  What events change is whole, and what is shown is at the  *)
(* same step with the same picker, credential and values, unless the wizard  *)
(* is fresh and a bundle is shown over it.                                   *)

WsFields == {"formal", "shown", "screen", "bundle", "reviewed", "seen", "fallback", "gate"}
FormalWhole(f) == "route" \in DOMAIN f /\ "wizard" \in DOMAIN f /\ WizWhole(f.wizard)
WsFresh(ws) == ws.formal.wizard.step = WizAgent /\ ws.formal.wizard.values = WizNoValues
WsWhole(ws) ==
    /\ \A k \in WsFields : k \in DOMAIN ws
    /\ FormalWhole(ws.formal)
    /\ WizShape(ws.shown)
    /\ ws.shown.step = ws.formal.wizard.step
    /\ ws.shown.picker = ws.formal.wizard.picker
    /\ ws.shown.auth = ws.formal.wizard.auth
    /\ ws.shown.values = ws.formal.wizard.values \/ WsFresh(ws)

LEMMA WsShow ==
    ASSUME NEW ws, WsWhole(ws), NEW f, FormalWhole(f)
    PROVE  WsWhole(ShowFormal(ws, f))
<1> DEFINE v == ShowFormal(ws, f)
<1>1. (\A k \in WsFields : k \in DOMAIN v) /\ v.formal = f /\ v.shown = f.wizard
    BY DEF ShowFormal, WsWhole, WsFields
<1> HIDE DEF v
<1>2. WsWhole(v)
    BY <1>1 DEF WsWhole, FormalWhole, WizWhole
<1> QED BY <1>2 DEF v

(* Every result of an event is whole, and so is what then is shown. *)
LEMMA WsApplied ==
    ASSUME NEW ws, WsWhole(ws), NEW R, \A w \in R : WizWhole(w)
    PROVE  /\ \A f \in FormalApply(ws, R) : FormalWhole(f)
           /\ \A f \in FormalApply(ws, R) : f.wizard \in R
<1> SUFFICES ASSUME NEW f \in FormalApply(ws, R) PROVE FormalWhole(f) /\ f.wizard \in R
    OBVIOUS
<1>1. PICK w \in R : f = [ws.formal EXCEPT !.wizard = w]
    BY DEF FormalApply
<1>2. "route" \in DOMAIN f /\ "wizard" \in DOMAIN f /\ f.wizard = w
    BY <1>1 DEF WsWhole, FormalWhole
<1> QED BY <1>1, <1>2 DEF FormalWhole

LEMMA WsLeft ==
    ASSUME NEW F, \A f \in F : FormalWhole(f)
    PROVE  \A f \in Leave(F) : FormalWhole(f)
<1> SUFFICES ASSUME NEW g \in F PROVE FormalWhole([g EXCEPT !.route = "Landing"])
    BY DEF Leave
<1> DEFINE f == [g EXCEPT !.route = "Landing"]
<1>1. "route" \in DOMAIN f /\ "wizard" \in DOMAIN f /\ f.wizard = g.wizard
    BY DEF FormalWhole
<1> HIDE DEF f
<1>2. FormalWhole(f)
    BY <1>1 DEF FormalWhole
<1> QED BY <1>2 DEF f

LEMMA WsShowOk ==
    ASSUME NEW ws, WsWhole(ws), NEW F, \A f \in F : FormalWhole(f)
    PROVE  /\ WsWhole(ShowIfOk(ws, F)) /\ WsWhole(ShowAlways(ws, F))
           /\ F # {} => ShowIfOk(ws, F).formal \in F
<1> DEFINE g == CHOOSE f \in F : TRUE
<1>1. F # {} => g \in F
    OBVIOUS
<1> HIDE DEF g
<1>2. CASE F = {}
    BY <1>2, WsShow DEF ShowIfOk, ShowAlways, WsWhole
<1>3. CASE F # {}
  <2>1. FormalWhole(g)
      BY <1>1, <1>3
  <2>2. ShowIfOk(ws, F) = ShowFormal(ws, g) /\ ShowAlways(ws, F) = ShowFormal(ws, g)
      BY <1>3 DEF ShowIfOk, ShowAlways, g
  <2>3. ShowFormal(ws, g).formal = g
      BY DEF ShowFormal, WsWhole, WsFields
  <2> QED BY <1>1, <1>3, <2>1, <2>2, <2>3, WsShow
<1> QED BY <1>2, <1>3

(* The other fields of the workspace are no part of it. *)
LEMMA WsOther ==
    ASSUME NEW ws, WsWhole(ws), NEW v, \A k \in WsFields : k \in DOMAIN v,
           v.formal = ws.formal, v.shown = ws.shown
    PROVE  WsWhole(v)
BY DEF WsWhole, WsFresh

LEMMA WsScreen ==
    ASSUME NEW ws, WsWhole(ws), NEW x
    PROVE  /\ WsWhole([ws EXCEPT !.screen = x]) /\ WsWhole([ws EXCEPT !.gate = x])
           /\ WsWhole([ws EXCEPT !.bundle = x]) /\ WsWhole([ws EXCEPT !.seen = x])
           /\ WsWhole([ws EXCEPT !.fallback = x]) /\ WsWhole([ws EXCEPT !.reviewed = x])
<1>1. ASSUME NEW v, v \in {[ws EXCEPT !.screen = x], [ws EXCEPT !.gate = x], [ws EXCEPT !.bundle = x],
                           [ws EXCEPT !.seen = x], [ws EXCEPT !.fallback = x], [ws EXCEPT !.reviewed = x]}
      PROVE  WsWhole(v)
  <2>1. (\A k \in WsFields : k \in DOMAIN v) /\ v.formal = ws.formal /\ v.shown = ws.shown
      BY <1>1 DEF WsWhole, WsFields
  <2> QED BY <2>1, WsOther
<1> QED BY <1>1

LEMMA WsOpen ==
    ASSUME NEW ws, WsWhole(ws) PROVE WsWhole(open_wizard(ws))
<1>1. CASE ws.formal.route = "Landing"
  <2> DEFINE v == [ws EXCEPT !.gate = FALSE, !.formal.route = "Wizard", !.screen = "Wizard"]
             f == [ws.formal EXCEPT !.route = "Wizard"]
  <2>1. "route" \in DOMAIN f /\ "wizard" \in DOMAIN f /\ f.wizard = ws.formal.wizard
      BY DEF WsWhole, FormalWhole
  <2>2. (\A k \in WsFields : k \in DOMAIN v) /\ v.formal = f /\ v.shown = ws.shown
      BY DEF WsWhole, WsFields
  <2> HIDE DEF f, v
  <2>3. WsWhole(v)
      BY <2>1, <2>2 DEF WsWhole, WsFresh, FormalWhole
  <2> QED BY <1>1, <2>3 DEF open_wizard, v
<1>2. CASE ws.formal.route # "Landing"
    BY <1>2, WsScreen DEF open_wizard
<1> QED BY <1>1, <1>2

LEMMA WsBackOrCancel ==
    ASSUME NEW ws, WsWhole(ws) PROVE WsWhole(wizard_back_or_cancel(ws))
<1> DEFINE w == ws.formal.wizard
           F == FormalApply(ws, back(w))
           G == Leave(FormalApply(ws, {cancel(w)}))
<1>1. WizWhole(w)
    BY DEF WsWhole, FormalWhole
<1>2. \A f \in F : FormalWhole(f)
    BY <1>1, WizBack, WsApplied
<1>3. \A f \in G : FormalWhole(f)
    BY <1>1, WizCancel, WsApplied, WsLeft
<1> HIDE DEF w, F, G
<1>4. WsWhole(ShowIfOk(ws, F)) /\ WsWhole([ShowIfOk(ws, G) EXCEPT !.screen = "Landing"])
    BY <1>2, <1>3, WsShowOk, WsScreen
<1> QED BY <1>4 DEF wizard_back_or_cancel, w, F, G

(* Before the first key the wizard is at its first step, nothing is selected *)
(* and what is shown has a text for every step.                              *)
WsFirst(ws) ==
    /\ WsWhole(ws)
    /\ WsFresh(ws)
    /\ ws.formal.wizard.picker # WizNone => \E catalog : ws.formal.wizard.picker = NewPicker(catalog)
    /\ DOMAIN ws.shown.values = WizSteps
    /\ ws.bundle # WizNone => DOMAIN ws.bundle = WizSteps

LEMMA WsReplaced ==
    ASSUME NEW ws, WsWhole(ws), NEW catalog, NEW mode, NEW adapters
    PROVE  LET v == ShowFormal(ws, FreshFormal(NewWizard(NewPicker(catalog), mode, adapters)))
           IN  WsWhole(v) /\ WsFresh(v) /\ v.bundle = ws.bundle /\ (WsFirst(ws) => WsFirst(v))
<1> DEFINE w == NewWizard(NewPicker(catalog), mode, adapters)
           f == FreshFormal(w)
           v == ShowFormal(ws, f)
<1>1. WizWhole(w) /\ w.step = WizAgent /\ w.picker = NewPicker(catalog) /\ w.values = WizNoValues
    BY WizFresh
<1> HIDE DEF w
<1>2. FormalWhole(f) /\ f.wizard = w
    BY <1>1 DEF FreshFormal, FormalWhole
<1> HIDE DEF f
<1>3. v.formal = f /\ v.shown = w /\ v.bundle = ws.bundle
    BY <1>2 DEF ShowFormal, WsWhole, WsFields
<1>4. WsWhole(v)
    BY <1>2, WsShow
<1>5. DOMAIN WizNoValues = WizSteps
    BY DEF WizNoValues, WizSteps, WizStep, WizAgent, WizReview
<1> HIDE DEF v
<1>6. WsFresh(v)
    BY <1>1, <1>2, <1>3 DEF WsFresh
<1>7. WsFirst(ws) => WsFirst(v)
    BY <1>1, <1>2, <1>3, <1>4, <1>5, <1>6 DEF WsFirst
<1> QED BY <1>3, <1>4, <1>6, <1>7 DEF v, f, w

LEMMA WsRestored ==
    ASSUME NEW ws, WsWhole(ws), WsFresh(ws), NEW values
    PROVE  LET v == restore_materialized_bundle(ws, values)
           IN  WsWhole(v) /\ (WsFirst(ws) /\ DOMAIN values = WizSteps => WsFirst(v))
<1> DEFINE x == restore_values(ws.shown, values)
           v == restore_materialized_bundle(ws, values)
<1>1. /\ WizShape(x) /\ x.step = ws.shown.step /\ x.picker = ws.shown.picker
      /\ x.values = values /\ x.auth = ws.shown.auth
    BY DEF restore_values, WsWhole, WizShape, WizFields
<1>2. v = [ws EXCEPT !.shown = x, !.bundle = values]
    BY DEF restore_materialized_bundle
<1> HIDE DEF x, v
<1>3. (\A k \in WsFields : k \in DOMAIN v) /\ v.formal = ws.formal /\ v.shown = x /\ v.bundle = values
    BY <1>2 DEF WsWhole, WsFields
<1>4. WsWhole(v)
    BY <1>1, <1>3 DEF WsWhole, WsFresh
<1>5. WsFirst(ws) /\ DOMAIN values = WizSteps => WsFirst(v)
    BY <1>1, <1>3, <1>4 DEF WsFirst, WsFresh
<1> QED BY <1>4, <1>5 DEF v

(* A change of the other fields. *)
LEMMA WsFirstOther ==
    ASSUME NEW ws, WsFirst(ws), NEW x
    PROVE  /\ WsFirst([ws EXCEPT !.screen = x]) /\ WsFirst([ws EXCEPT !.gate = x])
           /\ WsFirst([ws EXCEPT !.seen = x]) /\ WsFirst([ws EXCEPT !.fallback = x])
           /\ WsFirst([ws EXCEPT !.reviewed = x]) /\ WsFirst([ws EXCEPT !.bundle = WizNone])
<1>1. ASSUME NEW v, v \in {[ws EXCEPT !.screen = x], [ws EXCEPT !.gate = x], [ws EXCEPT !.seen = x],
                           [ws EXCEPT !.fallback = x], [ws EXCEPT !.reviewed = x], [ws EXCEPT !.bundle = WizNone]}
      PROVE  WsFirst(v)
  <2>1. /\ \A k \in WsFields : k \in DOMAIN v
        /\ v.formal = ws.formal /\ v.shown = ws.shown /\ v.bundle \in {ws.bundle, WizNone}
      BY <1>1 DEF WsFirst, WsWhole, WsFields
  <2>2. WsWhole(v)
      BY <2>1, WsOther DEF WsFirst
  <2> QED BY <2>1, <2>2 DEF WsFirst, WsFresh
<1> QED BY <1>1

LEMMA WsFirstOpen ==
    ASSUME NEW ws, WsFirst(ws) PROVE WsFirst(open_wizard(ws))
<1> DEFINE v == open_wizard(ws)
<1>1. WsWhole(v)
    BY WsOpen DEF WsFirst
<1>2. v.formal.wizard = ws.formal.wizard /\ v.shown = ws.shown /\ v.bundle = ws.bundle
    BY DEF open_wizard, WsFirst, WsWhole, WsFields, FormalWhole
<1> HIDE DEF v
<1>3. WsFirst(v)
    BY <1>1, <1>2 DEF WsFirst, WsFresh
<1> QED BY <1>3 DEF v

LEMMA WsDevelopment ==
    ASSUME NEW ws, WsWhole(ws)
    PROVE  LET v == ensure_development_catalog(ws)
           IN  WsWhole(v) /\ (WsFirst(ws) => WsFirst(v))
BY WsReplaced, WsScreen, WsFirstOther DEF ensure_development_catalog, with_catalog

LEMMA WsCatalog ==
    ASSUME NEW ws, WsWhole(ws), NEW p
    PROVE  LET v == SnapshotCatalog(ws, p)
           IN  WsWhole(v) /\ (WsFirst(ws) => WsFirst(v))
<1> DEFINE catalogs == IF p.agents /\ p.providers # WizNone
                       THEN wizard_catalog_from_snapshot(WizLive[p.providers]) ELSE {}
           catalog == CHOOSE c \in catalogs : TRUE
           live == WizLive[p.providers]
           r == ShowFormal(ws, FreshFormal(LiveWizard(live, catalog)))
           q == IF ws.bundle = WizNone THEN r ELSE restore_materialized_bundle(r, ws.bundle)
           v == SnapshotCatalog(ws, p)
<1>1. v = ws \/ v = [q EXCEPT !.fallback = FALSE]
    BY DEF SnapshotCatalog
<1> HIDE DEF catalog, live, v
<1>2. \E mode, adapters : LiveWizard(live, catalog) = NewWizard(NewPicker(catalog), mode, adapters)
    BY DEF LiveWizard, with_catalog, stable_with_catalog_and_adapter
<1>3. WsWhole(r) /\ WsFresh(r) /\ r.bundle = ws.bundle /\ (WsFirst(ws) => WsFirst(r))
    BY <1>2, WsReplaced
<1> HIDE DEF r
<1>4. WsWhole(q) /\ (WsFirst(ws) => WsFirst(q))
    BY <1>3, WsRestored DEF WsFirst
<1> HIDE DEF q
<1> DEFINE u == [q EXCEPT !.fallback = FALSE]
<1>5. WsWhole(u)
    BY <1>4, WsScreen
<1>6. WsFirst(ws) => WsFirst(u)
    BY <1>4, WsFirstOther
<1> HIDE DEF u
<1>7. WsWhole(v) /\ (WsFirst(ws) => WsFirst(v))
    BY <1>1, <1>5, <1>6 DEF u
<1> QED BY <1>7 DEF v

LEMMA WsReview ==
    ASSUME NEW ws, WsWhole(ws), NEW p
    PROVE  LET v == SnapshotReview(ws, p)
           IN  WsWhole(v) /\ (WsFirst(ws) => WsFirst(v))
<1> DEFINE v == SnapshotReview(ws, p)
<1>1. \/ v = ws \/ v = [ws EXCEPT !.reviewed = WizNone]
      \/ \E d : v = [[ws EXCEPT !.reviewed = d] EXCEPT !.bundle = WizNone]
    BY DEF SnapshotReview, set_reviewed_provider_setup, clear_preflight
<1> HIDE DEF v
<1>2. ASSUME NEW d PROVE LET u == [ws EXCEPT !.reviewed = d] IN WsWhole(u) /\ (WsFirst(ws) => WsFirst(u))
  <2>1. WsWhole([ws EXCEPT !.reviewed = d])
      BY WsScreen
  <2>2. WsFirst(ws) => WsFirst([ws EXCEPT !.reviewed = d])
      BY WsFirstOther
  <2> QED BY <2>1, <2>2
<1>3. ASSUME NEW d, v = [[ws EXCEPT !.reviewed = d] EXCEPT !.bundle = WizNone]
      PROVE  WsWhole(v) /\ (WsFirst(ws) => WsFirst(v))
  <2> DEFINE u == [ws EXCEPT !.reviewed = d]
  <2>1. WsWhole(u) /\ (WsFirst(ws) => WsFirst(u))
      BY <1>2
  <2> HIDE DEF u
  <2>2. v = [u EXCEPT !.bundle = WizNone]
      BY <1>3 DEF u
  <2>3. WsWhole([u EXCEPT !.bundle = WizNone])
      BY <2>1, WsScreen
  <2>4. WsFirst(ws) => WsFirst([u EXCEPT !.bundle = WizNone])
      BY <2>1, WsFirstOther
  <2> QED BY <2>2, <2>3, <2>4
<1>4. WsWhole(v) /\ (WsFirst(ws) => WsFirst(v))
    BY <1>1, <1>2, <1>3
<1> QED BY <1>4 DEF v

LEMMA WsSnapshot ==
    ASSUME NEW ws, WsWhole(ws), NEW p
    PROVE  LET v == apply_live_snapshot(ws, p)
           IN  WsWhole(v) /\ (WsFirst(ws) => WsFirst(v))
<1> DEFINE a == [ws EXCEPT !.seen = p.agents \/ p.providers # WizNone]
           b == SnapshotCatalog(a, p)
           c == SnapshotReview(b, p)
           d == ensure_development_catalog(c)
           v == apply_live_snapshot(ws, p)
<1>1. WsWhole(a) /\ (WsFirst(ws) => WsFirst(a))
    BY WsScreen, WsFirstOther
<1>2. v = c \/ v = open_wizard(d)
    BY DEF apply_live_snapshot
<1> HIDE DEF a, v
<1>3. WsWhole(b) /\ (WsFirst(ws) => WsFirst(b))
    BY <1>1, WsCatalog
<1> HIDE DEF b
<1>4. WsWhole(c) /\ (WsFirst(ws) => WsFirst(c))
    BY <1>3, WsReview
<1> HIDE DEF c
<1>5. WsWhole(d) /\ (WsFirst(ws) => WsFirst(d))
    BY <1>4, WsDevelopment
<1> HIDE DEF d
<1>6. WsWhole(open_wizard(d)) /\ (WsFirst(d) => WsFirst(open_wizard(d)))
    BY <1>5, WsOpen, WsFirstOpen
<1>7. WsWhole(v) /\ (WsFirst(ws) => WsFirst(v))
    BY <1>2, <1>4, <1>5, <1>6
<1> QED BY <1>7 DEF v

(* The live route writes what is shown, with the live execution mode, into   *)
(* the wizard that events change: at the first step nothing can disagree.    *)
LEMMA WsLiveRoute ==
    ASSUME NEW ws, WsFirst(ws) PROVE WsWhole(use_live_provider_context(ws))
<1> DEFINE w == ws.formal.wizard
           vs == [ws.shown.values EXCEPT ![WizRecording] = {"live"}]
           x == restore_values(w, vs)
           f == [ws.formal EXCEPT !.wizard = x]
<1>1. DOMAIN vs = WizSteps
    BY DEF WsFirst
<1> HIDE DEF vs
<1>2. WizWhole(w) /\ w.step = WizAgent
    BY DEF WsFirst, WsFresh, WsWhole, FormalWhole
<1>3. WizShape(x) /\ x.step = w.step /\ x.picker = w.picker /\ x.values = vs
    BY <1>2 DEF restore_values, WizWhole, WizShape, WizFields
<1>4. x.picker # WizNone => PickerAgrees(WizAgent, vs, x.picker)
    BY <1>3, WizNewPicker DEF WsFirst
<1>5. WizAgent \in 1..8 /\ \A s \in WizSteps : ~(s < WizAgent)
    BY DEF WizAgent, WizSteps
<1> HIDE DEF w, x
<1>6. WizWhole(x)
    BY <1>1, <1>2, <1>3, <1>4, <1>5 DEF WizWhole
<1>7. FormalWhole(f)
    BY <1>6 DEF WsFirst, WsWhole, FormalWhole
<1>8. use_live_provider_context(ws) = [ShowFormal(ws, f) EXCEPT !.screen = "Other"]
    BY DEF use_live_provider_context, w, x, vs
<1> HIDE DEF f
<1> DEFINE u == ShowFormal(ws, f)
<1>9. WsWhole(u)
    BY <1>7, WsShow DEF WsFirst
<1> HIDE DEF u
<1>10. WsWhole([u EXCEPT !.screen = "Other"])
    BY <1>9, WsScreen
<1> QED BY <1>8, <1>10 DEF u

LEMMA WsBegin == WsFirst(WorkspaceDefault)
<1> DEFINE a == WizardDefault
           b == WizardStable
           ws == WorkspaceDefault
<1>1. WizWhole(a) /\ a.step = WizAgent /\ a.picker = WizNone /\ a.values = WizNoValues
    BY WizFresh DEF WizardDefault
<1>2. WizWhole(b) /\ b.step = WizAgent /\ b.picker = WizNone /\ b.values = WizNoValues /\ b.auth = a.auth
    BY WizFresh DEF WizardStable, WizardDefault, NewWizard
<1>3. DOMAIN WizNoValues = WizSteps
    BY DEF WizNoValues, WizSteps, WizStep, WizAgent, WizReview
<1> HIDE DEF a, b
<1>4. /\ \A k \in WsFields : k \in DOMAIN ws
      /\ ws.formal = FreshFormal(a) /\ ws.shown = b /\ ws.bundle = WizNone
    BY DEF WorkspaceDefault, WsFields, a, b
<1>5. FormalWhole(FreshFormal(a)) /\ FreshFormal(a).wizard = a
    BY <1>1 DEF FreshFormal, FormalWhole
<1> HIDE DEF ws
<1>6. WsFirst(ws)
    BY <1>1, <1>2, <1>3, <1>4, <1>5 DEF WsFirst, WsFresh, WsWhole, WizWhole
<1> QED BY <1>6 DEF ws

(* The inductive invariant of the setup journey. *)
SetInv == WsWhole(set)

LEMMA SetInvInit == SetInit => SetInv
<1> SUFFICES ASSUME SetInit PROVE WsWhole(set)
    BY DEF SetInv
<1>1. PICK version \in SetVersions, durable \in SetDurable, configured \in BOOLEAN,
           g \in SetGenerations, route \in {"production", "development", "live"} :
        LET p == Projected([version |-> version, configured |-> configured], g)
            restored == IF durable = WizNone THEN WorkspaceDefault
                        ELSE restore_materialized_bundle(WorkspaceDefault, durable)
            first == apply_live_snapshot(restored, p)
            context == IF route = "production" THEN first ELSE use_development_context(first)
        IN  /\ setWorld = [version |-> version, configured |-> configured, generation |-> g,
                           ended |-> "no", projection |-> p]
            /\ route = "live" => version = "full"
            /\ set = IF route = "live" THEN use_live_provider_context(context) ELSE context
    BY Zenon DEF SetInit
<1> DEFINE p == Projected([version |-> version, configured |-> configured], g)
           restored == IF durable = WizNone THEN WorkspaceDefault
                       ELSE restore_materialized_bundle(WorkspaceDefault, durable)
           first == apply_live_snapshot(restored, p)
           context == IF route = "production" THEN first ELSE use_development_context(first)
<1>2. durable # WizNone => DOMAIN durable = WizSteps
  <2>1. durable # WizNone => durable \in SetValues
      BY SetAssumption
  <2>2. WizStep \ {WizReview} = WizSteps
      BY DEF WizStep, WizAgent, WizReview, WizSteps
  <2>3. \A v \in SetValues : DOMAIN v = WizStep \ {WizReview}
      BY DEF SetValues
  <2> QED BY <2>1, <2>2, <2>3
<1>3. WsFirst(restored)
  <2>1. WsWhole(WorkspaceDefault) /\ WsFresh(WorkspaceDefault)
      BY WsBegin DEF WsFirst
  <2> QED BY <1>2, <2>1, WsBegin, WsRestored
<1> HIDE DEF restored, p
<1>4. WsFirst(first)
  <2>1. WsWhole(restored)
      BY <1>3 DEF WsFirst
  <2> QED BY <1>3, <2>1, WsSnapshot
<1> HIDE DEF first
<1>5. WsFirst(context)
  <2>1. WsWhole(first)
      BY <1>4 DEF WsFirst
  <2>2. WsFirst(ensure_development_catalog(first))
      BY <1>4, <2>1, WsDevelopment
  <2> QED BY <1>4, <2>2 DEF use_development_context
<1> HIDE DEF context
<1>6. set = use_live_provider_context(context) \/ set = context
    BY <1>1 DEF context, first, restored, p
<1> QED BY <1>5, <1>6, WsLiveRoute DEF WsFirst

(* The keys of the wizard. *)
LEMMA SetKeyAuth == SetInv /\ KeyAuth => SetInv'
<1> SUFFICES ASSUME WsWhole(set), KeyAuth PROVE WsWhole(set')
    BY DEF SetInv
<1>1. PICK e \in {"Enroll", "Test", "Rotate", "Reset", "SelectFixture", "SelectNone", "Restart"} :
         set' = ShowAlways(set, FormalApply(set, DevelopmentAuth(Formal, e)))
    BY DEF KeyAuth
<1>2. WizWhole(Formal) /\ Formal.step = WizAuthentication
    BY DEF KeyAuth, WsWhole, FormalWhole, Formal
<1>3. \A v \in DevelopmentAuth(Formal, e) : WizWhole(v)
    BY <1>2, WizCredential
<1>4. \A f \in FormalApply(set, DevelopmentAuth(Formal, e)) : FormalWhole(f)
    BY <1>3, WsApplied
<1> QED BY <1>1, <1>4, WsShowOk

LEMMA SetKeyEnter == SetInv /\ KeyEnter => SetInv'
<1> SUFFICES ASSUME WsWhole(set), KeyEnter PROVE WsWhole(set')
    BY DEF SetInv
<1> DEFINE agentSelected == /\ set.shown.picker # WizNone
                            /\ set.shown.picker.kind = WizAgent /\ set.shown.picker.agents # {}
           selects == ~agentSelected /\ AtPicker
           R == IF selects THEN select_catalog_cursor(Formal) ELSE advance(Formal)
           first == FormalApply(set, R)
           chosen == ShowIfOk(set, first)
           second == FormalApply(chosen, advance(chosen.formal.wizard))
           after == IF selects /\ first # {} THEN ShowIfOk(chosen, second) ELSE chosen
           completed == Leave(FormalApply(set, complete(Formal)))
           done == [ShowIfOk(set, completed) EXCEPT !.screen = "Landing"]
<1>1. WizWhole(Formal) /\ set.shown.step = Formal.step /\ set.shown.picker = Formal.picker
    BY DEF WsWhole, FormalWhole, Formal
<1>2. \/ set.shown.step = WizReview /\ completed = {} /\ set' = set
      \/ set.shown.step = WizReview /\ WizardCompletion(done)
      \/ set' = after
    BY DEF KeyEnter, setVars
<1>3. ASSUME WizardCompletion(done) PROVE WsWhole(set')
  <2>1. \A v \in complete(Formal) : WizWhole(v)
      BY <1>1 DEF complete
  <2>2. \A f \in completed : FormalWhole(f)
      BY <2>1, WsApplied, WsLeft
  <2> HIDE DEF completed
  <2> DEFINE s == ShowIfOk(set, completed)
  <2>3. WsWhole(s)
      BY <2>2, WsShowOk
  <2> HIDE DEF s
  <2>4. WsWhole(done)
      BY <2>3, WsScreen DEF s
  <2> HIDE DEF done
  <2> DEFINE open == [done EXCEPT !.gate = TRUE]
  <2>5. WsWhole(open)
      BY <2>4, WsScreen
  <2>6. set' = done \/ \E p : set' = apply_live_snapshot(open, p)
      BY <1>3 DEF WizardCompletion
  <2> HIDE DEF open
  <2> QED BY <2>4, <2>5, <2>6, WsSnapshot
<1>4. WsWhole(after)
  <2>1. selects => \A v \in R : WizWhole(v) /\ WizReady(v)
      BY <1>1, WizSelect DEF AtPicker
  <2>2. ~selects => \A v \in R : WizWhole(v)
    <3> SUFFICES ASSUME ~selects PROVE \A v \in advance(Formal) : WizWhole(v)
        BY Zenon
    <3>1. WizReady(Formal)
      <4> SUFFICES ASSUME Formal.picker # WizNone, Formal.step \in WizCatalogSteps
                   PROVE  Formal.step = WizAgent /\ Formal.values[WizAgent] = selected_ids(Formal.picker, WizAgent)
          BY DEF WizReady, WizAgent, WizProvider, WizModel, WizCatalogSteps
      <4>1. agentSelected
          BY <1>1 DEF AtPicker
      <4>2. PickerAgrees(Formal.step, Formal.values, Formal.picker)
          BY <1>1 DEF WizWhole
      <4>3. Formal.step = WizAgent /\ Formal.picker.agents # {}
          BY <1>1, <4>1, <4>2 DEF PickerAgrees
      <4>4. Formal.values[WizAgent] = Formal.picker.agents
          BY <4>2, <4>3 DEF PickerAgrees
      <4>5. selected_ids(Formal.picker, WizAgent) = Formal.picker.agents
          BY DEF selected_ids, WizAgent, WizProvider, WizModel
      <4> QED BY <4>3, <4>4, <4>5
    <3> QED BY <1>1, <3>1, WizAdvance
  <2> HIDE DEF R, selects
  <2>3. \A f \in first : FormalWhole(f) /\ f.wizard \in R
      BY <2>1, <2>2, WsApplied
  <2> HIDE DEF first
  <2>4. WsWhole(chosen) /\ (first # {} => chosen.formal \in first)
      BY <2>3, WsShowOk
  <2> HIDE DEF chosen
  <2>5. ASSUME selects, first # {} PROVE WsWhole(ShowIfOk(chosen, second))
    <3>1. WizWhole(chosen.formal.wizard) /\ WizReady(chosen.formal.wizard)
        BY <2>1, <2>3, <2>4, <2>5
    <3>2. \A v \in advance(chosen.formal.wizard) : WizWhole(v)
        BY <3>1, WizAdvance
    <3>3. \A f \in second : FormalWhole(f)
        BY <2>4, <3>2, WsApplied
    <3> HIDE DEF second
    <3> QED BY <2>4, <3>3, WsShowOk
  <2> HIDE DEF second
  <2> QED BY <2>4, <2>5
<1> HIDE DEF after, done, completed
<1> QED BY <1>2, <1>3, <1>4

LEMMA SetKeyMove == SetInv /\ KeyMove => SetInv'
<1> SUFFICES ASSUME WsWhole(set), KeyMove PROVE WsWhole(set')
    BY DEF SetInv
<1>1. WizWhole(Formal)
    BY DEF WsWhole, FormalWhole, Formal
<1>2. ASSUME NEW R, \A v \in R : WizWhole(v), set' = ShowAlways(set, FormalApply(set, R))
      PROVE  WsWhole(set')
  <2>1. \A f \in FormalApply(set, R) : FormalWhole(f)
      BY <1>2, WsApplied
  <2> QED BY <1>2, <2>1, WsShowOk
<1>3. CASE \E down \in BOOLEAN :
              set' = ShowAlways(set, FormalApply(set,
                        IF Formal.picker = WizNone THEN {}
                        ELSE {[Formal EXCEPT !.picker = move_cursor(@, down)]}))
  <2>1. PICK down \in BOOLEAN :
              set' = ShowAlways(set, FormalApply(set,
                        IF Formal.picker = WizNone THEN {}
                        ELSE {[Formal EXCEPT !.picker = move_cursor(@, down)]}))
      BY <1>3
  <2> DEFINE d == move_cursor(Formal.picker, down)
             R == IF Formal.picker = WizNone THEN {} ELSE {[Formal EXCEPT !.picker = d]}
  <2>2. set' = ShowAlways(set, FormalApply(set, R))
      BY <2>1
  <2>3. Formal.picker # WizNone => WizWhole([Formal EXCEPT !.picker = d])
      BY <1>1, WizLooks
  <2>4. \A v \in R : WizWhole(v)
      BY <2>3
  <2> HIDE DEF R
  <2> QED BY <1>2, <2>2, <2>4
<1>4. CASE set' = ShowAlways(set, FormalApply(set, move_bounded_choice(Formal)))
  <2>1. \A v \in move_bounded_choice(Formal) : WizWhole(v)
      BY <1>1, WizBounded
  <2> QED BY <1>2, <1>4, <2>1
<1> QED BY <1>3, <1>4 DEF KeyMove

(* An event whose results are whole is shown if it was accepted. *)
LEMMA SetAccepted ==
    ASSUME WsWhole(set), NEW R, \A v \in R : WizWhole(v), set' = ShowIfOk(set, FormalApply(set, R))
    PROVE  WsWhole(set')
<1>1. \A f \in FormalApply(set, R) : FormalWhole(f)
    BY WsApplied
<1> QED BY <1>1, WsShowOk

LEMMA SetSearched ==
    ASSUME WsWhole(set), NEW q, set' = SetQuery(q) PROVE WsWhole(set')
<1> DEFINE d == set_query(Formal.picker, q)
           R == IF Formal.picker = WizNone THEN {} ELSE {[Formal EXCEPT !.picker = d]}
<1>1. WizWhole(Formal)
    BY DEF WsWhole, FormalWhole, Formal
<1>2. Formal.picker # WizNone => WizWhole([Formal EXCEPT !.picker = d])
    BY <1>1, WizLooks
<1>3. \A v \in R : WizWhole(v)
    BY <1>2
<1>4. set' = ShowIfOk(set, FormalApply(set, R))
    BY DEF SetQuery
<1> HIDE DEF R
<1> QED BY <1>3, <1>4, SetAccepted

LEMMA SetTyped ==
    ASSUME WsWhole(set), ~AtPicker, NEW x, set' = ShowIfOk(set, FormalApply(set, set_value(Formal, x)))
    PROVE  WsWhole(set')
<1>1. WizWhole(Formal) /\ (Formal.picker = WizNone \/ Formal.step \notin WizCatalogSteps)
    BY DEF WsWhole, FormalWhole, Formal, AtPicker
<1>2. \A v \in set_value(Formal, x) : WizWhole(v)
    BY <1>1, WizText
<1> QED BY <1>2, SetAccepted

LEMMA SetKeyToggle == SetInv /\ KeyToggle => SetInv'
<1> SUFFICES ASSUME WsWhole(set), KeyToggle PROVE WsWhole(set')
    BY DEF SetInv
<1>1. WizWhole(Formal) /\ Formal.step = WizAgent /\ Formal.step \in WizCatalogSteps
    BY DEF KeyToggle, WsWhole, FormalWhole, Formal, WizCatalogSteps
<1>2. \A v \in select_catalog_cursor(Formal) : WizWhole(v)
    BY <1>1, WizSelect
<1>3. \A v \in WizToggleVisible(Formal) : WizWhole(v)
    BY <1>1, WizAllAgents
<1> QED BY <1>2, <1>3, SetAccepted DEF KeyToggle

LEMMA SetKeyCancel == SetInv /\ KeyCancel => SetInv'
<1> SUFFICES ASSUME WsWhole(set), KeyCancel PROVE WsWhole(set')
    BY DEF SetInv
<1> DEFINE G == Leave(FormalApply(set, {cancel(Formal)}))
           u == ShowIfOk(set, G)
<1>1. WizWhole(Formal)
    BY DEF WsWhole, FormalWhole, Formal
<1>2. \A f \in G : FormalWhole(f)
    BY <1>1, WizCancel, WsApplied, WsLeft
<1>3. set' = set \/ set' = [u EXCEPT !.screen = "Landing"]
    BY DEF KeyCancel
<1> HIDE DEF G
<1>4. WsWhole(u)
    BY <1>2, WsShowOk
<1> HIDE DEF u
<1>5. WsWhole([u EXCEPT !.screen = "Landing"])
    BY <1>4, WsScreen
<1> QED BY <1>3, <1>5

LEMMA SetKeyText == SetInv /\ (KeyChar \/ KeyBackspace) => SetInv'
<1> SUFFICES ASSUME WsWhole(set), KeyChar \/ KeyBackspace PROVE WsWhole(set')
    BY DEF SetInv
<1>1. CASE KeyChar
    BY <1>1, SetSearched, SetTyped DEF KeyChar
<1>2. CASE KeyBackspace
    BY <1>2, SetSearched, SetTyped, WsBackOrCancel DEF KeyBackspace
<1> QED BY <1>1, <1>2

(* Every step of the setup journey keeps the draft whole. *)
LEMMA SetInvNext == SetInv /\ [SetNext]_setVars => SetInv'
<1> SUFFICES ASSUME SetInv, [SetNext]_setVars PROVE SetInv'
    OBVIOUS
<1>1. WsWhole(set)
    BY DEF SetInv
<1>2. CASE KeyTab
  <2>1. \A v \in {Formal} : WizWhole(v)
      BY <1>1 DEF WsWhole, FormalWhole, Formal
  <2> QED BY <1>1, <1>2, <2>1, SetAccepted DEF KeyTab, SetInv
<1>3. CASE KeyBack
    BY <1>1, <1>3, WsBackOrCancel DEF KeyBack, SetInv
<1>4. CASE KeyOpenWizard
    BY <1>1, <1>4, WsOpen DEF KeyOpenWizard, SetInv
<1>5. CASE KeyLanding
    BY <1>1, <1>5, WsScreen DEF KeyLanding, SetInv
<1>6. CASE PreparePreflight
  <2>1. PICK b : set' = [set EXCEPT !.bundle = b]
      BY <1>6 DEF PreparePreflight
  <2>2. WsWhole([set EXCEPT !.bundle = b])
      BY <1>1, WsScreen
  <2> QED BY <2>1, <2>2 DEF SetInv
<1>7. CASE Refresh
  <2>1. PICK p : set' = apply_live_snapshot(set, p)
      BY <1>7 DEF Refresh
  <2> QED BY <1>1, <2>1, WsSnapshot DEF SetInv
<1>8. CASE RefreshFails \/ RunnerRefreshes \/ UNCHANGED setVars
    BY <1>8 DEF RefreshFails, RunnerRefreshes, setVars, SetInv
<1> QED BY <1>2, <1>3, <1>4, <1>5, <1>6, <1>7, <1>8, SetKeyAuth, SetKeyEnter, SetKeyMove,
           SetKeyToggle, SetKeyCancel, SetKeyText DEF SetNext

(* The place of a step among the stages of the journey. *)
StageOf == <<1, 2, 3, 4, 5, 8, 9, 10>>
LEMMA StagePlaces ==
    ASSUME NEW step \in 1..8
    PROVE  \A i \in DOMAIN JOURNEY_STAGES :
               wizard_progress(step)[i] = "Complete" =>
                   JOURNEY_STAGES[i] \in WizSteps /\ JOURNEY_STAGES[i] < step
<1> DEFINE J == DOMAIN JOURNEY_STAGES
           at(i) == ~runner_owned_reason(i) /\ JOURNEY_STAGES[i] = step
           current == CHOOSE i \in J : at(i)
<1>1. J = 1..13
    BY DEF JOURNEY_STAGES
<1>2. StageOf[step] \in J /\ at(StageOf[step])
    BY <1>1 DEF StageOf, JOURNEY_STAGES, runner_owned_reason, WizAgent, WizProvider, WizModel,
                WizConfiguration, WizAuthentication, WizRecording, WizReplay, WizReview
<1>3. current \in J /\ at(current)
    BY <1>2
<1>4. \A i \in J : wizard_progress(step)[i] = "Complete" => ~runner_owned_reason(i) /\ i < current
    BY DEF wizard_progress
<1> HIDE DEF current
<1>5. ASSUME NEW i \in J, ~runner_owned_reason(i), i < current
      PROVE  JOURNEY_STAGES[i] \in WizSteps /\ JOURNEY_STAGES[i] < step
    BY <1>1, <1>3, <1>5 DEF JOURNEY_STAGES, runner_owned_reason, WizSteps, WizAgent, WizProvider, WizModel,
                WizConfiguration, WizAuthentication, WizRecording, WizReplay, WizReview
<1> QED BY <1>4, <1>5

(* The draft is whole in every state of the setup journey, for every catalog *)
(* of every generation, every durable bundle, every text and every order of  *)
(* keys, refreshes and preflights.                                           *)
THEOREM DraftIsWhole == SetSpec => []SetDraftWhole
<1>1. SetInv => SetDraftWhole
  <2> SUFFICES ASSUME SetInv PROVE SetDraftWhole
      OBVIOUS
  <2> DEFINE w == set.formal.wizard
  <2>1. /\ WizWhole(w) /\ set.shown.step = w.step /\ set.shown.picker = w.picker
        /\ set.shown.auth = w.auth
        /\ set.shown.values = w.values \/ (w.step = WizAgent /\ w.values = WizNoValues)
      BY DEF SetInv, WsWhole, WsFresh, FormalWhole
  <2>2. SetSameStep
      BY <2>1 DEF SetSameStep
  <2>3. SetSelectionAgrees
      BY <2>1 DEF SetSelectionAgrees, WizWhole, PickerAgrees
  <2>4. SetNoHoles
    <3>1. w.step \in 1..8 /\ \A s \in WizSteps : s < w.step => w.values[s] # {}
        BY <2>1 DEF WizWhole
    <3> HIDE DEF w
    <3>2. \A i \in DOMAIN JOURNEY_STAGES :
              wizard_progress(w.step)[i] = "Complete" => w.values[JOURNEY_STAGES[i]] # {}
        BY <3>1, StagePlaces
    <3> QED BY <2>1, <3>2 DEF SetNoHoles, w
  <2> QED BY <2>2, <2>3, <2>4 DEF SetDraftWhole
<1> QED BY <1>1, SetInvInit, SetInvNext, PTL DEF SetSpec

-----------------------------------------------------------------------------
(* Types of the setup journey, and what keeps the gate.                      *)

SetCatalogs == {WizDevelopment} \cup UNION {wizard_catalog_from_snapshot(WizLive[g]) : g \in SetGenerations}

LEMMA SetSteps ==
    /\ WizAgent = 1 /\ WizProvider = 2 /\ WizModel = 3 /\ WizConfiguration = 4
    /\ WizAuthentication = 5 /\ WizRecording = 6 /\ WizReplay = 7 /\ WizReview = 8
    /\ WizStep = 1..8 /\ WizStep \ {WizReview} = 1..7 /\ WizCatalogSteps = {1, 2, 3}
    /\ WizBoundedSteps = {4, 5, 6, 7}
BY DEF WizAgent, WizProvider, WizModel, WizConfiguration, WizAuthentication, WizRecording,
       WizReplay, WizReview, WizStep, WizCatalogSteps, WizBoundedSteps

LEMMA SetPickerIs ==
    SetPicker = [catalog : SetCatalogs, kind : {1, 2, 3}, cursor : 1..Len(WizOrder),
                 query : Seq(SUBSET WizId), agents : SUBSET WizId,
                 provider : WizId \cup {WizNone}, model : WizId \cup {WizNone}]
BY SetSteps DEF SetPicker, SetCatalogs

LEMMA SetOrder ==
    /\ Len(WizOrder) \in Nat /\ 1 \in 1..Len(WizOrder) /\ DOMAIN WizOrder = 1..Len(WizOrder)
    /\ \A i \in DOMAIN WizOrder : WizOrder[i] \in WizId
BY WizAssumption, SetAssumption DEF WizId

(* Pickers. *)
LEMMA SetNewPicker ==
    ASSUME NEW catalog \in SetCatalogs PROVE NewPicker(catalog) \in SetPicker
<1>1. <<>> \in Seq(SUBSET WizId)
    OBVIOUS
<1> QED BY <1>1, SetOrder, SetPickerIs, SetSteps DEF NewPicker

LEMMA SetKindPicker ==
    ASSUME NEW c \in SetPicker, NEW kind \in WizCatalogSteps PROVE set_kind(c, kind) \in SetPicker
<1>1. <<>> \in Seq(SUBSET WizId)
    OBVIOUS
<1> QED BY <1>1, SetOrder, SetPickerIs, SetSteps DEF set_kind

LEMMA SetQueryPicker ==
    ASSUME NEW c \in SetPicker, NEW q \in Seq(SUBSET WizId) PROVE set_query(c, q) \in SetPicker
BY SetOrder, SetPickerIs DEF set_query

LEMMA SetVisible ==
    ASSUME NEW c
    PROVE  LET n == Cardinality(visible_options(c)) IN n \in Nat /\ n <= Len(WizOrder)
<1>1. visible_options(c) \subseteq 1..Len(WizOrder)
    BY SetOrder DEF visible_options
<1>2. Len(WizOrder) \in Int /\ 1 \in Int
    BY SetOrder
<1>3. IsFiniteSet(1..Len(WizOrder)) /\ Cardinality(1..Len(WizOrder)) = Len(WizOrder)
    BY <1>2, SetOrder, FS_Interval
<1>4. IsFiniteSet(visible_options(c)) /\ Cardinality(visible_options(c)) <= Cardinality(1..Len(WizOrder))
    BY <1>1, <1>3, FS_Subset, Zenon
<1>5. Cardinality(visible_options(c)) \in Nat
    BY <1>4, FS_CardinalityType
<1> QED BY <1>3, <1>4, <1>5

LEMMA SetCursorPicker ==
    ASSUME NEW c \in SetPicker, NEW down \in BOOLEAN PROVE move_cursor(c, down) \in SetPicker
<1> DEFINE n == Cardinality(visible_options(c))
           k == IF n = 0 THEN 1 ELSE IF down THEN (IF c.cursor < n THEN c.cursor + 1 ELSE n)
                ELSE (IF c.cursor > 1 THEN c.cursor - 1 ELSE 1)
<1>1. n \in Nat /\ n <= Len(WizOrder)
    BY SetVisible
<1>2. c.cursor \in 1..Len(WizOrder)
    BY SetPickerIs
<1>3. move_cursor(c, down) = [c EXCEPT !.cursor = k]
    BY DEF move_cursor
<1> HIDE DEF n
<1>4. k \in 1..Len(WizOrder)
    BY <1>1, <1>2, SetOrder
<1> HIDE DEF k
<1> QED BY <1>3, <1>4, SetPickerIs

LEMMA SetFocusedIds ==
    ASSUME NEW c PROVE WizFocused(c) \subseteq WizId
BY SetOrder DEF WizFocused, visible_options

LEMMA SetChosenPicker ==
    ASSUME NEW c \in SetPicker
    PROVE  /\ \A d \in select_cursor(c) : d \in SetPicker
           /\ \A d \in toggle_agent_cursor(c) : d \in SetPicker
           /\ \A d \in toggle_visible_agents(c) : d \in SetPicker
<1>1. ASSUME NEW agents, agents \subseteq WizId PROVE WithAgents(c, agents) \in SetPicker
    BY <1>1, SetPickerIs DEF WithAgents
<1>2. ASSUME NEW o \in WizId
      PROVE  [c EXCEPT !.provider = o, !.model = WizNone] \in SetPicker /\ [c EXCEPT !.model = o] \in SetPicker
    BY SetPickerIs
<1>3. c.agents \subseteq WizId
    BY SetPickerIs
<1>4. \A d \in select_cursor(c) : d \in SetPicker
    BY <1>2, SetFocusedIds DEF select_cursor
<1>5. ASSUME NEW d \in toggle_agent_cursor(c) PROVE d \in SetPicker
  <2>1. PICK o \in WizFocused(c) :
            d = WithAgents(c, IF o \in c.agents THEN c.agents \ {o} ELSE c.agents \cup {o})
      BY DEF toggle_agent_cursor
  <2>2. (IF o \in c.agents THEN c.agents \ {o} ELSE c.agents \cup {o}) \subseteq WizId
      BY <1>3, SetFocusedIds
  <2> QED BY <1>1, <2>1, <2>2
<1>6. ASSUME NEW d \in toggle_visible_agents(c) PROVE d \in SetPicker
  <2> DEFINE visible == {WizOrder[i] : i \in visible_options(c)} \cap c.catalog.available
             ids == IF visible \subseteq c.agents THEN c.agents \ visible ELSE c.agents \cup visible
  <2>1. visible \subseteq WizId
      BY SetOrder DEF visible_options
  <2>2. d = WithAgents(c, ids)
      BY DEF toggle_visible_agents
  <2> HIDE DEF visible
  <2>3. ids \subseteq WizId
      BY <1>3, <2>1
  <2> QED BY <1>1, <2>2, <2>3
<1> QED BY <1>4, <1>5, <1>6

(* Values. *)
LEMMA SetValuesAre ==
    ASSUME NEW v
    PROVE  v \in SetValues <=>
              /\ v \in [1..7 -> SUBSET UNION {SetValueOf(s) : s \in 1..7}]
              /\ \A s \in 1..7 : v[s] \subseteq SetValueOf(s)
BY SetSteps, Zenon DEF SetValues

LEMMA SetValueKinds ==
    /\ SetValueOf(1) = WizId /\ SetValueOf(2) = WizId /\ SetValueOf(3) = WizId
    /\ SetValueOf(5) = WizAuthValue
    /\ \A s \in {4, 6, 7} : SetValueOf(s) = {"all defaults", "live", "local-mock", "strict offline replay"}
BY SetSteps DEF SetValueOf

LEMMA SetValuesHave ==
    ASSUME NEW v \in SetValues
    PROVE  /\ DOMAIN v = 1..7
           /\ v[1] \subseteq WizId /\ v[2] \subseteq WizId /\ v[3] \subseteq WizId /\ v[5] \subseteq WizAuthValue
           /\ \A s \in 1..7 : v[s] \subseteq SetValueOf(s)
<1>1. v \in [1..7 -> SUBSET UNION {SetValueOf(s) : s \in 1..7}] /\ \A s \in 1..7 : v[s] \subseteq SetValueOf(s)
    BY SetValuesAre
<1>2. DOMAIN v = 1..7
    BY <1>1
<1>3. 1 \in 1..7 /\ 2 \in 1..7 /\ 3 \in 1..7 /\ 5 \in 1..7
    OBVIOUS
<1> QED BY <1>1, <1>2, <1>3, SetValueKinds, Zenon

LEMMA SetValuesPut ==
    ASSUME NEW v \in SetValues, NEW s \in 1..7, NEW x, x \subseteq SetValueOf(s)
    PROVE  [v EXCEPT ![s] = x] \in SetValues
<1> DEFINE U == UNION {SetValueOf(t) : t \in 1..7}
           u == [v EXCEPT ![s] = x]
<1>1. v \in [1..7 -> SUBSET U] /\ \A t \in 1..7 : v[t] \subseteq SetValueOf(t)
    BY SetValuesAre
<1>2. x \in SUBSET U
    BY Zenon
<1> HIDE DEF U
<1>3. u \in [1..7 -> SUBSET U]
    BY <1>1, <1>2
<1>4. \A t \in 1..7 : u[t] = IF t = s THEN x ELSE v[t]
    BY <1>1
<1> HIDE DEF u
<1>5. \A t \in 1..7 : u[t] \subseteq SetValueOf(t)
    BY <1>1, <1>4
<1>6. u \in SetValues
    BY <1>3, <1>5, SetValuesAre DEF U
<1> QED BY <1>6 DEF u

LEMMA SetNoValues == WizNoValues \in SetValues
<1>1. WizNoValues = [s \in 1..7 |-> {}]
    BY SetSteps DEF WizNoValues
<1>2. /\ WizNoValues \in [1..7 -> SUBSET UNION {SetValueOf(s) : s \in 1..7}]
      /\ \A s \in 1..7 : WizNoValues[s] \subseteq SetValueOf(s)
    BY <1>1
<1> QED BY <1>2, SetValuesAre

(* Wizards.  An event keeps the types, and a picker stays a picker. *)
WizTyped(w) == WizShape(w) /\ SetWizardOK(w)
WizKept(w, r) == WizTyped(r) /\ (w.picker # WizNone => r.picker # WizNone)

LEMMA WizTypedIs ==
    ASSUME NEW w
    PROVE  WizTyped(w) <=>
             /\ \A k \in WizFields : k \in DOMAIN w
             /\ w.step \in 1..8 /\ w.values \in SetValues
             /\ w.picker = WizNone \/ w.picker \in SetPicker
             /\ w.auth \in SetAuth /\ w.mode \in {"Stable", "Development"}
BY SetSteps DEF WizTyped, WizShape, SetWizardOK

LEMMA SetNoPicker == WizNone \notin SetPicker
BY SetAssumption

LEMMA SetNewWizard ==
    ASSUME NEW picker, picker = WizNone \/ picker \in SetPicker, NEW mode \in {"Stable", "Development"}, NEW adapters
    PROVE  LET w == NewWizard(picker, mode, adapters)
           IN  WizTyped(w) /\ w.picker = picker /\ w.values = WizNoValues
<1> DEFINE w == NewWizard(picker, mode, adapters)
<1>1. /\ \A k \in WizFields : k \in DOMAIN w
      /\ w.step = 1 /\ w.values = WizNoValues /\ w.picker = picker /\ w.auth = NewAuth /\ w.mode = mode
    BY SetSteps DEF NewWizard, WizFields
<1>2. NewAuth \in SetAuth
    BY DEF NewAuth, SetAuth
<1> HIDE DEF w
<1>3. WizTyped(w)
    BY <1>1, <1>2, SetNoValues, WizTypedIs
<1> QED BY <1>1, <1>3 DEF w

(* The value, the picker or the step of a wizard is replaced. *)
LEMMA SetPutValue ==
    ASSUME NEW w, WizTyped(w), NEW s \in 1..7, NEW x, x \subseteq SetValueOf(s)
    PROVE  WizKept(w, [w EXCEPT !.values[s] = x])
<1> DEFINE u == [w.values EXCEPT ![s] = x]
           r == [w EXCEPT !.values = u]
<1>1. [w EXCEPT !.values[s] = x] = r
    OBVIOUS
<1>2. u \in SetValues
    BY SetValuesPut, WizTypedIs
<1> HIDE DEF u
<1>3. /\ \A k \in WizFields : k \in DOMAIN r
      /\ r.step = w.step /\ r.values = u /\ r.picker = w.picker /\ r.auth = w.auth /\ r.mode = w.mode
    BY WizTypedIs DEF WizFields
<1> HIDE DEF r
<1>4. WizKept(w, r)
    BY <1>2, <1>3, WizTypedIs DEF WizKept
<1> QED BY <1>1, <1>4

LEMMA SetPutPicker ==
    ASSUME NEW w, WizTyped(w), NEW c \in SetPicker
    PROVE  WizKept(w, [w EXCEPT !.picker = c])
<1> DEFINE r == [w EXCEPT !.picker = c]
<1>3. /\ \A k \in WizFields : k \in DOMAIN r
      /\ r.step = w.step /\ r.values = w.values /\ r.picker = c /\ r.auth = w.auth /\ r.mode = w.mode
    BY WizTypedIs DEF WizFields
<1> HIDE DEF r
<1>4. WizKept(w, r)
    BY <1>3, WizTypedIs, SetNoPicker DEF WizKept
<1> QED BY <1>4 DEF r

LEMMA SetPutStep ==
    ASSUME NEW w, WizTyped(w), NEW s \in 1..8
    PROVE  LET r == [w EXCEPT !.step = s]
           IN  WizKept(w, r) /\ r.step = s /\ r.picker = w.picker
<1> DEFINE r == [w EXCEPT !.step = s]
<1>3. /\ \A k \in WizFields : k \in DOMAIN r
      /\ r.step = s /\ r.values = w.values /\ r.picker = w.picker /\ r.auth = w.auth /\ r.mode = w.mode
    BY WizTypedIs DEF WizFields
<1> HIDE DEF r
<1>4. WizKept(w, r)
    BY <1>3, WizTypedIs, SetNoPicker DEF WizKept
<1> QED BY <1>3, <1>4 DEF r

LEMMA SetPutAuth ==
    ASSUME NEW w, WizTyped(w), NEW a \in SetAuth
    PROVE  WizKept(w, [w EXCEPT !.auth = a])
<1> DEFINE r == [w EXCEPT !.auth = a]
<1>3. /\ \A k \in WizFields : k \in DOMAIN r
      /\ r.step = w.step /\ r.values = w.values /\ r.picker = w.picker /\ r.auth = a /\ r.mode = w.mode
    BY WizTypedIs DEF WizFields
<1> HIDE DEF r
<1>4. WizKept(w, r)
    BY <1>3, WizTypedIs, SetNoPicker DEF WizKept
<1> QED BY <1>4 DEF r

LEMMA SetKeptAgain ==
    ASSUME NEW w, NEW v, NEW r, WizKept(w, v), WizKept(v, r) PROVE WizKept(w, r)
BY DEF WizKept

(* The events. *)
LEMMA SetValueTyped ==
    ASSUME NEW w, WizTyped(w), NEW x, w.step \in 1..7 => x \subseteq SetValueOf(w.step)
    PROVE  \A r \in set_value(w, x) : WizKept(w, r)
<1> SUFFICES ASSUME NEW r \in set_value(w, x) PROVE WizKept(w, r)
    OBVIOUS
<1>1. w.step # 8 /\ r = [w EXCEPT !.values[w.step] = x]
    BY SetSteps DEF set_value
<1>2. w.step \in 1..7
    BY <1>1, WizTypedIs
<1> QED BY <1>1, <1>2, SetPutValue

LEMMA SetFollowed ==
    ASSUME NEW w, WizTyped(w) PROVE WizKept(w, select_kind_for_step(w))
<1>1. WizKept(w, w)
    BY DEF WizKept
<1>2. ASSUME w.picker # WizNone, w.step \in WizCatalogSteps
      PROVE  WizKept(w, [w EXCEPT !.picker = set_kind(@, w.step)])
  <2> DEFINE c == set_kind(w.picker, w.step)
  <2>1. c \in SetPicker
      BY <1>2, WizTypedIs, SetKindPicker
  <2> HIDE DEF c
  <2>2. WizKept(w, [w EXCEPT !.picker = c])
      BY <2>1, SetPutPicker
  <2> QED BY <2>2 DEF c
<1> QED BY <1>1, <1>2 DEF select_kind_for_step

LEMMA SetChoiceLists ==
    /\ bounded_choices[4] = <<"all defaults">> /\ bounded_choices[5] = <<"environment">>
    /\ bounded_choices[6] = <<"live", "local-mock">> /\ bounded_choices[7] = <<"strict offline replay">>
<1>1. /\ WizConfiguration # WizAuthentication /\ WizConfiguration # WizRecording /\ WizConfiguration # WizReplay
      /\ WizAuthentication # WizRecording /\ WizAuthentication # WizReplay /\ WizRecording # WizReplay
    BY SetSteps
<1>2. /\ bounded_choices[WizConfiguration] = <<"all defaults">>
      /\ bounded_choices[WizAuthentication] = <<"environment">>
      /\ bounded_choices[WizRecording] = <<"live", "local-mock">>
      /\ bounded_choices[WizReplay] = <<"strict offline replay">>
    BY <1>1, Zenon DEF bounded_choices, WizBoundedSteps
<1> QED BY <1>2, SetSteps, Zenon

SetListOf(t, V) == Len(t) \in 1..2 /\ \A i \in 1..Len(t) : t[i] \in V

LEMMA SetLists ==
    ASSUME NEW a, NEW b, NEW V, a \in V, b \in V
    PROVE  SetListOf(<<a>>, V) /\ SetListOf(<<a, b>>, V)
<1>1. Len(<<a>>) = 1 /\ Len(<<a, b>>) = 2 /\ <<a>>[1] = a /\ <<a, b>>[1] = a /\ <<a, b>>[2] = b
    OBVIOUS
<1> QED BY <1>1 DEF SetListOf

LEMMA SetChoice ==
    ASSUME NEW s \in WizBoundedSteps PROVE SetListOf(bounded_choices[s], SetValueOf(s))
<1> DEFINE all == {"all defaults", "live", "local-mock", "strict offline replay"}
<1>1. s = 4 \/ s = 5 \/ s = 6 \/ s = 7
    BY SetSteps
<1>2. /\ SetListOf(<<"all defaults">>, all) /\ SetListOf(<<"live", "local-mock">>, all)
      /\ SetListOf(<<"strict offline replay">>, all) /\ SetListOf(<<"environment">>, WizAuthValue)
  <2>1. ASSUME NEW a, NEW V, a \in V PROVE SetListOf(<<a>>, V)
      BY <2>1, SetLists, Zenon
  <2>2. /\ "all defaults" \in all /\ "live" \in all /\ "local-mock" \in all
        /\ "strict offline replay" \in all /\ "environment" \in WizAuthValue
      BY DEF WizAuthValue
  <2> HIDE DEF all
  <2> QED BY <2>1, <2>2, SetLists, Zenon
<1>3. SetValueOf(4) = all /\ SetValueOf(6) = all /\ SetValueOf(7) = all /\ SetValueOf(5) = WizAuthValue
  <2>1. 4 \in {4, 6, 7} /\ 6 \in {4, 6, 7} /\ 7 \in {4, 6, 7}
      OBVIOUS
  <2> QED BY <2>1, SetValueKinds, ZenonT(30)
<1> HIDE DEF all
<1> QED BY <1>1, <1>2, <1>3, SetChoiceLists, Zenon

LEMMA SetDefaulted ==
    ASSUME NEW w, WizTyped(w) PROVE WizKept(w, ensure_bounded_default(w))
<1>1. WizKept(w, w)
    BY DEF WizKept
<1>2. ASSUME w.step \in WizBoundedSteps
      PROVE  WizKept(w, [w EXCEPT !.values[w.step] = {bounded_choices[w.step][1]}])
  <2> DEFINE x == {bounded_choices[w.step][1]}
  <2>1. w.step \in {4, 5, 6, 7} /\ w.step \in 1..7
      BY <1>2, SetSteps
  <2>4. SetListOf(bounded_choices[w.step], SetValueOf(w.step))
      BY <1>2, SetChoice
  <2>2. x \subseteq SetValueOf(w.step)
      BY <2>4 DEF SetListOf
  <2> HIDE DEF x
  <2>3. WizKept(w, [w EXCEPT !.values[w.step] = x])
      BY <2>1, <2>2, SetPutValue
  <2> QED BY <2>3 DEF x
<1> QED BY <1>1, <1>2 DEF ensure_bounded_default

LEMMA SetAdvanced ==
    ASSUME NEW w, WizTyped(w) PROVE \A r \in advance(w) : WizKept(w, r)
<1> SUFFICES ASSUME NEW r \in advance(w) PROVE WizKept(w, r)
    OBVIOUS
<1> DEFINE a == [w EXCEPT !.step = w.step + 1]
           b == select_kind_for_step(a)
<1>1. w.step # 8 /\ r = ensure_bounded_default(b)
    BY SetSteps DEF advance
<1>2. w.step + 1 \in 1..8
    BY <1>1, WizTypedIs
<1>3. WizKept(w, a)
    BY <1>2, SetPutStep
<1> HIDE DEF a
<1>4. WizKept(a, b)
    BY <1>3, SetFollowed DEF WizKept
<1> HIDE DEF b
<1>5. WizKept(b, r)
    BY <1>1, <1>4, SetDefaulted DEF WizKept
<1> QED BY <1>3, <1>4, <1>5, SetKeptAgain

LEMMA SetBacked ==
    ASSUME NEW w, WizTyped(w) PROVE \A r \in back(w) : WizKept(w, r)
<1> SUFFICES ASSUME NEW r \in back(w) PROVE WizKept(w, r)
    OBVIOUS
<1> DEFINE a == [w EXCEPT !.step = w.step - 1]
<1>1. w.step # 1 /\ r = select_kind_for_step(a)
    BY SetSteps DEF back
<1>2. w.step - 1 \in 1..8
    BY <1>1, WizTypedIs
<1>3. WizKept(w, a)
    BY <1>2, SetPutStep
<1> HIDE DEF a
<1>4. WizKept(a, r)
    BY <1>1, <1>3, SetFollowed DEF WizKept
<1> QED BY <1>3, <1>4, SetKeptAgain

LEMMA SetBounded ==
    ASSUME NEW w, WizTyped(w) PROVE \A r \in move_bounded_choice(w) : WizKept(w, r)
<1> SUFFICES ASSUME NEW r \in move_bounded_choice(w) PROVE WizKept(w, r)
    OBVIOUS
<1> DEFINE n == Len(bounded_choices[w.step])
           same == {i \in 1..n : {bounded_choices[w.step][i]} = current_value(w)}
           from == IF same = {} THEN 1 ELSE CHOOSE i \in same : TRUE
           x == {bounded_choices[w.step][(from % n) + 1]}
<1>1. w.step \in WizBoundedSteps /\ r = [w EXCEPT !.values[w.step] = x]
    BY DEF move_bounded_choice
<1>2. w.step \in {4, 5, 6, 7} /\ w.step \in 1..7
    BY <1>1, SetSteps
<1>3. SetListOf(bounded_choices[w.step], SetValueOf(w.step))
    BY <1>1, SetChoice
<1>4. n \in 1..2 /\ \A i \in 1..n : bounded_choices[w.step][i] \in SetValueOf(w.step)
    BY <1>3 DEF SetListOf
<1> HIDE DEF n
<1>6. from \in 1..n
    BY <1>4
<1> HIDE DEF from
<1>7. (from % n) + 1 \in 1..n
  <2>1. CASE n = 1
      BY <1>6, <2>1
  <2>2. CASE n = 2
      BY <1>6, <2>2
  <2> QED BY <1>4, <2>1, <2>2
<1>5. x \subseteq SetValueOf(w.step)
    BY <1>4, <1>7
<1> HIDE DEF x
<1> QED BY <1>1, <1>2, <1>5, SetPutValue

LEMMA SetCancelled ==
    ASSUME NEW w, WizTyped(w) PROVE WizKept(w, cancel(w))
<1> DEFINE c == IF w.picker = WizNone THEN WizNone ELSE reset_draft(w.picker)
           a == [w.auth EXCEPT !.enrolled = FALSE]
           r == cancel(w)
<1>1. a \in SetAuth
    BY WizTypedIs DEF SetAuth
<1>2. w.picker # WizNone => c \in SetPicker
  <2>1. w.picker # WizNone => w.picker.catalog \in SetCatalogs
      BY WizTypedIs, SetPickerIs
  <2> QED BY <2>1, SetNewPicker DEF reset_draft
<1>3. w.picker = WizNone => c = WizNone
    OBVIOUS
<1>4. r = [w EXCEPT !.step = WizAgent, !.values = WizNoValues, !.auth = a, !.picker = c]
    BY DEF cancel
<1> HIDE DEF a, c, r
<1>5. /\ \A k \in WizFields : k \in DOMAIN r
      /\ r.step = 1 /\ r.values = WizNoValues /\ r.picker = c /\ r.auth = a /\ r.mode = w.mode
    BY <1>4, WizTypedIs, SetSteps DEF WizFields
<1>6. WizKept(w, r)
    BY <1>1, <1>2, <1>3, <1>5, WizTypedIs, SetNoPicker, SetNoValues DEF WizKept
<1> QED BY <1>6 DEF r

LEMMA SetCredential ==
    ASSUME NEW w, WizTyped(w),
           NEW e \in {"Enroll", "Test", "Rotate", "Reset", "SelectFixture", "SelectNone", "Restart"}
    PROVE  \A r \in DevelopmentAuth(w, e) : WizKept(w, r)
<1> DEFINE put(a, x) == [w EXCEPT !.auth = a, !.values[WizAuthentication] = x]
           here(b) == [w.auth EXCEPT !.enrolled = b]
<1>1. ASSUME NEW a \in SetAuth, NEW x, x \subseteq WizAuthValue PROVE WizKept(w, put(a, x))
  <2> DEFINE v == [w EXCEPT !.auth = a]
  <2>1. WizKept(w, v)
      BY SetPutAuth
  <2>2. put(a, x) = [v EXCEPT !.values[5] = x]
      BY SetSteps, WizTypedIs DEF WizFields
  <2> HIDE DEF v
  <2>5. x \subseteq SetValueOf(5)
      BY <1>1, SetValueKinds, Zenon
  <2>3. 5 \in 1..7 /\ x \subseteq SetValueOf(5)
      BY <2>5
  <2>4. WizKept(v, [v EXCEPT !.values[5] = x])
      BY <2>1, <2>3, SetPutValue DEF WizKept
  <2> QED BY <2>1, <2>2, <2>4, SetKeptAgain
<1>2. ASSUME NEW b \in BOOLEAN, NEW x, x \subseteq WizAuthValue
      PROVE  WizKept(w, [w EXCEPT !.auth.enrolled = b, !.values[WizAuthentication] = x])
  <2>1. here(b) \in SetAuth
      BY WizTypedIs DEF SetAuth
  <2>2. WizKept(w, put(here(b), x))
      BY <1>1, <1>2, <2>1
  <2> QED BY <2>2
<1>3. WizKept(w, [w EXCEPT !.auth.method = "fixture", !.values[WizAuthentication] = {}])
  <2> DEFINE a == [w.auth EXCEPT !.method = "fixture"]
  <2>1. a \in SetAuth
      BY WizTypedIs DEF SetAuth
  <2>2. WizKept(w, put(a, {}))
      BY <1>1, <2>1
  <2> QED BY <2>2
<1>4. WizKept(w, [w EXCEPT !.auth = [method |-> "none", enrolled |-> FALSE], !.values[WizAuthentication] = {"none"}])
  <2>1. [method |-> "none", enrolled |-> FALSE] \in SetAuth /\ {"none"} \subseteq WizAuthValue
      BY DEF SetAuth, WizAuthValue
  <2> QED BY <1>1, <2>1
<1>5. WizKept(w, w)
    BY DEF WizKept
<1>6. {"fixture"} \subseteq WizAuthValue /\ {} \subseteq WizAuthValue /\ TRUE \in BOOLEAN /\ FALSE \in BOOLEAN
    BY DEF WizAuthValue
<1> SUFFICES ASSUME NEW r \in DevelopmentAuth(w, e) PROVE WizKept(w, r)
    OBVIOUS
<1>7. /\ WizKept(w, [w EXCEPT !.auth.enrolled = TRUE, !.values[WizAuthentication] = {"fixture"}])
      /\ WizKept(w, [w EXCEPT !.auth.enrolled = FALSE, !.values[WizAuthentication] = {}])
    BY <1>2, <1>6
<1> HIDE DEF put, here
<1>8. CASE e = "Enroll"
    BY <1>7, <1>8, Zenon DEF DevelopmentAuth
<1>9. CASE e = "Test"
    BY <1>5, <1>9, Zenon DEF DevelopmentAuth
<1>10. CASE e = "Rotate"
    BY <1>7, <1>10, Zenon DEF DevelopmentAuth
<1>11. CASE e = "Reset"
    BY <1>7, <1>11, Zenon DEF DevelopmentAuth
<1>12. CASE e = "Restart"
    BY <1>7, <1>12, Zenon DEF DevelopmentAuth
<1>13. CASE e = "SelectFixture"
    BY <1>3, <1>13, Zenon DEF DevelopmentAuth
<1>14. CASE e = "SelectNone"
    BY <1>4, <1>14, Zenon DEF DevelopmentAuth
<1> QED BY <1>8, <1>9, <1>10, <1>11, <1>12, <1>13, <1>14

LEMMA SetIds ==
    ASSUME NEW c \in SetPicker PROVE selected_ids(c, c.kind) \subseteq WizId
<1>1. c.agents \subseteq WizId /\ {c.provider} \ {WizNone} \subseteq WizId /\ {c.model} \ {WizNone} \subseteq WizId
    BY SetPickerIs
<1>2. c.kind = WizAgent \/ c.kind = WizProvider \/ c.kind = WizModel
    BY SetPickerIs, SetSteps
<1>3. WizAgent # WizProvider /\ WizAgent # WizModel /\ WizProvider # WizModel
    BY SetSteps
<1>4. CASE c.kind = WizAgent
    BY <1>1, <1>3, <1>4, Zenon DEF selected_ids
<1>5. CASE c.kind = WizProvider
    BY <1>1, <1>3, <1>5, Zenon DEF selected_ids
<1>6. CASE c.kind = WizModel
    BY <1>1, <1>3, <1>6, Zenon DEF selected_ids
<1> QED BY <1>2, <1>4, <1>5, <1>6

LEMMA SetCatalogValue ==
    ASSUME NEW s \in WizCatalogSteps PROVE s \in 1..7 /\ SetValueOf(s) = WizId
BY SetSteps DEF SetValueOf

LEMMA SetSelected ==
    ASSUME NEW w, WizTyped(w), w.step \in WizCatalogSteps
    PROVE  \A r \in select_catalog_cursor(w) : WizKept(w, r)
<1> SUFFICES ASSUME NEW r \in select_catalog_cursor(w) PROVE WizKept(w, r)
    OBVIOUS
<1>1. w.picker # WizNone
    BY DEF select_catalog_cursor
<1> DEFINE C == IF w.picker.kind = WizAgent THEN toggle_agent_cursor(w.picker) ELSE select_cursor(w.picker)
           auth(c) == IF c.kind = WizProvider THEN NewAuth ELSE w.auth
           u(c) == [w EXCEPT !.picker = c, !.auth = auth(c)]
<1>2. PICK c \in C : r \in set_value(u(c), selected_ids(c, c.kind))
    BY <1>1 DEF select_catalog_cursor
<1>3. c \in SetPicker
    BY <1>1, SetChosenPicker, WizTypedIs
<1>4. auth(c) \in SetAuth
    BY WizTypedIs DEF NewAuth, SetAuth
<1> DEFINE v == [w EXCEPT !.picker = c]
           a == auth(c)
<1>5. WizKept(w, v)
    BY <1>3, SetPutPicker
<1>6. u(c) = [v EXCEPT !.auth = a] /\ u(c).step = w.step
    BY WizTypedIs DEF WizFields
<1> HIDE DEF v, a
<1>7. WizKept(v, u(c))
  <2>1. WizTyped(v) /\ a \in SetAuth
      BY <1>4, <1>5 DEF WizKept, a
  <2>2. WizKept(v, [v EXCEPT !.auth = a])
      BY <2>1, SetPutAuth
  <2> QED BY <1>6, <2>2
<1> DEFINE x == selected_ids(c, c.kind)
           y == u(c)
<1>8. x \subseteq WizId
    BY <1>3, SetIds
<1>9. WizTyped(y) /\ y.step \in 1..7 /\ SetValueOf(y.step) = WizId
    BY <1>6, <1>7, SetCatalogValue DEF WizKept
<1>10. r \in set_value(y, x)
    BY <1>2
<1>11. WizKept(v, y)
    BY <1>7
<1> HIDE DEF x, y
<1>12. WizKept(y, r)
    BY <1>8, <1>9, <1>10, SetValueTyped
<1> QED BY <1>5, <1>11, <1>12, SetKeptAgain

LEMMA SetAllAgents ==
    ASSUME NEW w, WizTyped(w), w.step \in WizCatalogSteps
    PROVE  \A r \in WizToggleVisible(w) : WizKept(w, r)
<1> SUFFICES ASSUME NEW r \in WizToggleVisible(w) PROVE WizKept(w, r)
    OBVIOUS
<1>1. w.picker # WizNone
    BY DEF WizToggleVisible
<1>2. PICK c \in toggle_visible_agents(w.picker) : r \in set_value([w EXCEPT !.picker = c], c.agents)
    BY <1>1 DEF WizToggleVisible
<1>3. c \in SetPicker
    BY <1>1, SetChosenPicker, WizTypedIs
<1>4. c.agents \subseteq WizId
    BY <1>3, SetPickerIs
<1> DEFINE v == [w EXCEPT !.picker = c]
<1>5. WizKept(w, v)
    BY <1>3, SetPutPicker
<1>6. v.step = w.step
    BY WizTypedIs DEF WizFields
<1>7. r \in set_value(v, c.agents)
    BY <1>2
<1> HIDE DEF v
<1>8. WizKept(v, r)
    BY <1>4, <1>5, <1>6, <1>7, SetCatalogValue, SetValueTyped DEF WizKept
<1> QED BY <1>5, <1>8, SetKeptAgain

(* The workspace: its types, and that its picker and its gate stay.          *)
FormalTyped(f) ==
    /\ "route" \in DOMAIN f /\ "wizard" \in DOMAIN f
    /\ f.route \in {"Landing", "Wizard"} /\ WizTyped(f.wizard)
WsTyped(ws) ==
    /\ \A k \in WsFields : k \in DOMAIN ws
    /\ FormalTyped(ws.formal) /\ WizTyped(ws.shown)
    /\ ws.screen \in {"Landing", "Wizard", "Other"}
    /\ ws.bundle = WizNone \/ ws.bundle \in SetValues
    /\ ws.reviewed = WizNone \/ ws.reviewed \in SetDraft
    /\ ws.seen \in BOOLEAN /\ ws.fallback \in BOOLEAN /\ ws.gate \in BOOLEAN
FormalKept(ws, f) == FormalTyped(f) /\ (ws.shown.picker # WizNone => f.wizard.picker # WizNone)
WsSteady(ws, v) ==
    /\ v.gate => ws.gate
    /\ v.fallback = ws.fallback
    /\ ws.shown.picker # WizNone => v.shown.picker # WizNone
WsKept(ws, v) == WsTyped(v) /\ WsSteady(ws, v)

WsPair(ws) == ws.shown.picker = ws.formal.wizard.picker

LEMMA WsWholePair == ASSUME NEW ws, WsWhole(ws) PROVE WsPair(ws)
BY DEF WsWhole, WsPair

LEMMA WsKeptAgain ==
    ASSUME NEW ws, NEW u, NEW v, WsKept(ws, u), WsKept(u, v) PROVE WsKept(ws, v)
BY DEF WsKept, WsSteady

LEMMA WsKeptSame == ASSUME NEW ws, WsTyped(ws) PROVE WsKept(ws, ws)
BY DEF WsKept, WsSteady

LEMMA WsShowKept ==
    ASSUME NEW ws, WsTyped(ws), NEW f, FormalKept(ws, f)
    PROVE  LET v == ShowFormal(ws, f)
           IN  WsKept(ws, v) /\ v.shown = f.wizard /\ v.formal = f /\ v.gate = ws.gate /\ v.bundle = ws.bundle
<1> DEFINE v == ShowFormal(ws, f)
<1>1. /\ \A k \in WsFields : k \in DOMAIN v
      /\ v.formal = f /\ v.shown = f.wizard /\ v.screen = ws.screen /\ v.bundle = ws.bundle
      /\ v.reviewed = ws.reviewed /\ v.seen = ws.seen /\ v.fallback = ws.fallback /\ v.gate = ws.gate
    BY DEF ShowFormal, WsTyped, WsFields
<1> HIDE DEF v
<1>2. WsTyped(v)
    BY <1>1 DEF WsTyped, FormalKept, FormalTyped
<1>3. WsSteady(ws, v)
    BY <1>1 DEF WsSteady, FormalKept
<1> QED BY <1>1, <1>2, <1>3 DEF v, WsKept

LEMMA WsAppliedKept ==
    ASSUME NEW ws, WsPair(ws), WsTyped(ws), NEW R, \A r \in R : WizKept(ws.formal.wizard, r)
    PROVE  /\ \A f \in FormalApply(ws, R) : FormalKept(ws, f)
           /\ \A f \in Leave(FormalApply(ws, R)) : FormalKept(ws, f)
<1>1. ASSUME NEW f \in FormalApply(ws, R) PROVE FormalKept(ws, f)
  <2>1. PICK r \in R : f = [ws.formal EXCEPT !.wizard = r]
      BY DEF FormalApply
  <2>2. "route" \in DOMAIN f /\ "wizard" \in DOMAIN f /\ f.wizard = r /\ f.route = ws.formal.route
      BY <2>1 DEF WsTyped, FormalTyped
  <2>3. WizKept(ws.formal.wizard, r) /\ ws.shown.picker = ws.formal.wizard.picker
      BY <2>1 DEF WsPair
  <2> QED BY <2>2, <2>3 DEF FormalKept, FormalTyped, WizKept, WsTyped
<1>2. ASSUME NEW g, FormalKept(ws, g) PROVE FormalKept(ws, [g EXCEPT !.route = "Landing"])
  <2> DEFINE f == [g EXCEPT !.route = "Landing"]
  <2>1. "route" \in DOMAIN f /\ "wizard" \in DOMAIN f /\ f.wizard = g.wizard /\ f.route = "Landing"
      BY <1>2 DEF FormalKept, FormalTyped
  <2> HIDE DEF f
  <2>2. FormalKept(ws, f)
      BY <1>2, <2>1 DEF FormalKept, FormalTyped
  <2> QED BY <2>2 DEF f
<1>3. ASSUME NEW f \in Leave(FormalApply(ws, R)) PROVE FormalKept(ws, f)
  <2>1. PICK g \in FormalApply(ws, R) : f = [g EXCEPT !.route = "Landing"]
      BY DEF Leave
  <2> QED BY <1>1, <1>2, <2>1
<1> QED BY <1>1, <1>3

LEMMA WsShowOkKept ==
    ASSUME NEW ws, WsPair(ws), WsTyped(ws), NEW F, \A f \in F : FormalKept(ws, f)
    PROVE  /\ WsKept(ws, ShowIfOk(ws, F)) /\ WsKept(ws, ShowAlways(ws, F))
           /\ ShowIfOk(ws, F).gate = ws.gate /\ WsPair(ShowIfOk(ws, F))
           /\ F # {} => ShowIfOk(ws, F).formal \in F
<1> DEFINE g == CHOOSE f \in F : TRUE
<1>1. F # {} => g \in F
    OBVIOUS
<1> HIDE DEF g
<1>2. CASE F = {}
  <2>1. FormalKept(ws, ws.formal)
      BY DEF FormalKept, WsTyped, WsPair
  <2>2. ShowIfOk(ws, F) = ws /\ ShowAlways(ws, F) = ShowFormal(ws, ws.formal)
      BY <1>2 DEF ShowIfOk, ShowAlways
  <2> QED BY <1>2, <2>1, <2>2, WsShowKept, WsKeptSame DEF WsPair
<1>3. CASE F # {}
  <2>1. FormalKept(ws, g)
      BY <1>1, <1>3
  <2>2. ShowIfOk(ws, F) = ShowFormal(ws, g) /\ ShowAlways(ws, F) = ShowFormal(ws, g)
      BY <1>3 DEF ShowIfOk, ShowAlways, g
  <2> QED BY <1>1, <1>3, <2>1, <2>2, WsShowKept DEF WsPair
<1> QED BY <1>2, <1>3

(* A field that is no wizard is replaced. *)
LEMMA WsFieldKept ==
    ASSUME NEW ws, WsTyped(ws), NEW v, \A k \in WsFields : k \in DOMAIN v,
           v.formal = ws.formal, v.shown = ws.shown, v.fallback = ws.fallback, v.gate \in BOOLEAN,
           v.screen \in {"Landing", "Wizard", "Other"},
           v.bundle = WizNone \/ v.bundle \in SetValues, v.reviewed = WizNone \/ v.reviewed \in SetDraft,
           v.seen \in BOOLEAN
    PROVE  WsTyped(v) /\ ((v.gate => ws.gate) => WsKept(ws, v))
BY DEF WsTyped, WsKept, WsSteady

LEMMA WsScreenKept ==
    ASSUME NEW ws, WsTyped(ws), NEW x \in {"Landing", "Wizard", "Other"}
    PROVE  LET v == [ws EXCEPT !.screen = x]
           IN  WsKept(ws, v) /\ v.shown = ws.shown /\ v.gate = ws.gate /\ v.formal = ws.formal
<1> DEFINE v == [ws EXCEPT !.screen = x]
<1>1. /\ \A k \in WsFields : k \in DOMAIN v
      /\ v.formal = ws.formal /\ v.shown = ws.shown /\ v.screen = x /\ v.bundle = ws.bundle
      /\ v.reviewed = ws.reviewed /\ v.seen = ws.seen /\ v.fallback = ws.fallback /\ v.gate = ws.gate
    BY DEF WsTyped, WsFields
<1> HIDE DEF v
<1>2. WsKept(ws, v)
    BY <1>1, WsFieldKept DEF WsTyped
<1> QED BY <1>1, <1>2 DEF v

LEMMA WsBundleKept ==
    ASSUME NEW ws, WsTyped(ws), NEW x, x = WizNone \/ x \in SetValues
    PROVE  LET v == [ws EXCEPT !.bundle = x] IN WsKept(ws, v) /\ v.shown = ws.shown /\ v.gate = ws.gate
<1> DEFINE v == [ws EXCEPT !.bundle = x]
<1>1. /\ \A k \in WsFields : k \in DOMAIN v
      /\ v.formal = ws.formal /\ v.shown = ws.shown /\ v.screen = ws.screen /\ v.bundle = x
      /\ v.reviewed = ws.reviewed /\ v.seen = ws.seen /\ v.fallback = ws.fallback /\ v.gate = ws.gate
    BY DEF WsTyped, WsFields
<1> HIDE DEF v
<1>2. WsKept(ws, v)
    BY <1>1, WsFieldKept DEF WsTyped
<1> QED BY <1>1, <1>2 DEF v

LEMMA WsReviewedKept ==
    ASSUME NEW ws, WsTyped(ws), NEW x, x = WizNone \/ x \in SetDraft
    PROVE  LET v == [ws EXCEPT !.reviewed = x] IN WsKept(ws, v) /\ v.shown = ws.shown /\ v.gate = ws.gate
<1> DEFINE v == [ws EXCEPT !.reviewed = x]
<1>1. /\ \A k \in WsFields : k \in DOMAIN v
      /\ v.formal = ws.formal /\ v.shown = ws.shown /\ v.screen = ws.screen /\ v.bundle = ws.bundle
      /\ v.reviewed = x /\ v.seen = ws.seen /\ v.fallback = ws.fallback /\ v.gate = ws.gate
    BY DEF WsTyped, WsFields
<1> HIDE DEF v
<1>2. WsKept(ws, v)
    BY <1>1, WsFieldKept DEF WsTyped
<1> QED BY <1>1, <1>2 DEF v

LEMMA WsSeenKept ==
    ASSUME NEW ws, WsTyped(ws), NEW x \in BOOLEAN
    PROVE  LET v == [ws EXCEPT !.seen = x] IN WsKept(ws, v) /\ v.shown = ws.shown /\ v.gate = ws.gate
<1> DEFINE v == [ws EXCEPT !.seen = x]
<1>1. /\ \A k \in WsFields : k \in DOMAIN v
      /\ v.formal = ws.formal /\ v.shown = ws.shown /\ v.screen = ws.screen /\ v.bundle = ws.bundle
      /\ v.reviewed = ws.reviewed /\ v.seen = x /\ v.fallback = ws.fallback /\ v.gate = ws.gate
    BY DEF WsTyped, WsFields
<1> HIDE DEF v
<1>2. WsKept(ws, v)
    BY <1>1, WsFieldKept DEF WsTyped
<1> QED BY <1>1, <1>2 DEF v

LEMMA WsGateTyped ==
    ASSUME NEW ws, WsTyped(ws), NEW x \in BOOLEAN
    PROVE  LET v == [ws EXCEPT !.gate = x]
           IN  /\ WsTyped(v) /\ v.shown = ws.shown /\ v.gate = x /\ v.fallback = ws.fallback
               /\ ~x => WsKept(ws, v)
<1> DEFINE v == [ws EXCEPT !.gate = x]
<1>1. /\ \A k \in WsFields : k \in DOMAIN v
      /\ v.formal = ws.formal /\ v.shown = ws.shown /\ v.screen = ws.screen /\ v.bundle = ws.bundle
      /\ v.reviewed = ws.reviewed /\ v.seen = ws.seen /\ v.fallback = ws.fallback /\ v.gate = x
    BY DEF WsTyped, WsFields
<1> HIDE DEF v
<1>2. WsTyped(v) /\ ((v.gate => ws.gate) => WsKept(ws, v))
    BY <1>1, WsFieldKept DEF WsTyped
<1> QED BY <1>1, <1>2 DEF v

LEMMA WsOpenKept ==
    ASSUME NEW ws, WsTyped(ws) PROVE WsKept(ws, open_wizard(ws)) /\ open_wizard(ws).shown = ws.shown
<1>1. CASE ws.formal.route = "Landing"
  <2> DEFINE f == [ws.formal EXCEPT !.route = "Wizard"]
             v == [ws EXCEPT !.gate = FALSE, !.formal.route = "Wizard", !.screen = "Wizard"]
  <2>1. FormalTyped(f)
    <3>1. "route" \in DOMAIN f /\ "wizard" \in DOMAIN f /\ f.wizard = ws.formal.wizard /\ f.route = "Wizard"
        BY DEF WsTyped, FormalTyped
    <3> HIDE DEF f
    <3> QED BY <3>1 DEF WsTyped, FormalTyped
  <2>2. /\ \A k \in WsFields : k \in DOMAIN v
        /\ v.formal = f /\ v.shown = ws.shown /\ v.screen = "Wizard" /\ v.bundle = ws.bundle
        /\ v.reviewed = ws.reviewed /\ v.seen = ws.seen /\ v.fallback = ws.fallback /\ v.gate = FALSE
      BY DEF WsTyped, WsFields
  <2>3. open_wizard(ws) = v
      BY <1>1 DEF open_wizard
  <2> HIDE DEF v, f
  <2> QED BY <2>1, <2>2, <2>3 DEF WsKept, WsTyped, WsSteady
<1>2. CASE ws.formal.route # "Landing"
    BY <1>2, WsGateTyped DEF open_wizard
<1> QED BY <1>1, <1>2

LEMMA WsBackKept ==
    ASSUME NEW ws, WsWhole(ws), WsTyped(ws) PROVE WsKept(ws, wizard_back_or_cancel(ws))
<1> DEFINE w == ws.formal.wizard
           F == FormalApply(ws, back(w))
           G == Leave(FormalApply(ws, {cancel(w)}))
<1>1. WizTyped(w)
    BY DEF WsTyped, FormalTyped
<1>2. \A f \in F : FormalKept(ws, f)
    BY <1>1, SetBacked, WsAppliedKept, WsWholePair
<1>3. \A f \in G : FormalKept(ws, f)
  <2>1. \A r \in {cancel(w)} : WizKept(w, r)
      BY <1>1, SetCancelled
  <2> QED BY <2>1, WsAppliedKept, WsWholePair
<1>4. wizard_back_or_cancel(ws) \in {ws, ShowIfOk(ws, F), [ShowIfOk(ws, G) EXCEPT !.screen = "Landing"]}
    BY DEF wizard_back_or_cancel
<1> HIDE DEF F, G
<1> DEFINE u == ShowIfOk(ws, G)
<1>5. WsKept(ws, ShowIfOk(ws, F)) /\ WsKept(ws, u)
    BY <1>2, <1>3, WsShowOkKept, WsWholePair
<1>6. WsTyped(u)
    BY <1>5 DEF WsKept
<1>7. wizard_back_or_cancel(ws) \in {ws, ShowIfOk(ws, F), [u EXCEPT !.screen = "Landing"]}
    BY <1>4
<1> HIDE DEF u
<1>8. WsKept(ws, [u EXCEPT !.screen = "Landing"])
    BY <1>5, <1>6, WsScreenKept, WsKeptAgain
<1> QED BY <1>5, <1>7, <1>8, WsKeptSame

(* The draft of the shown values is one of the types of a draft. *)
LEMMA SetSelectionTyped ==
    ASSUME NEW values \in SetValues
    PROVE  wizard_configuration_selection(values) \subseteq SetSelection
<1>1. values[1] \subseteq WizId /\ values[2] \subseteq WizId /\ values[3] \subseteq WizId /\ values[5] \subseteq WizAuthValue
    BY SetValuesHave
<1>2. /\ values[WizAgent] \subseteq WizId /\ values[WizProvider] \subseteq WizId
      /\ values[WizModel] \subseteq WizId /\ values[WizAuthentication] \subseteq WizAuthValue
    BY <1>1, SetSteps, Zenon
<1> SUFFICES ASSUME NEW s \in wizard_configuration_selection(values) PROVE s \in SetSelection
    OBVIOUS
<1>3. PICK p \in values[WizProvider], m \in values[WizModel], a \in values[WizAuthentication] :
         s = [agents |-> values[WizAgent], provider |-> p, model |-> m, auth |-> a]
    BY DEF wizard_configuration_selection
<1> QED BY <1>2, <1>3 DEF SetSelection

LEMMA SetDraftTyped ==
    ASSUME NEW values \in SetValues, NEW g \in SetGenerations
    PROVE  from_wizard_values(values, g) \subseteq SetDraft
BY SetSelectionTyped DEF from_wizard_values, SetDraft

(* What the snapshot's catalogs were given to: the workspace has a picker of *)
(* its own, unless they make none.                                           *)
SetServed(ws, p) ==
    (p.agents /\ p.providers # WizNone) =>
        \/ wizard_catalog_from_snapshot(WizLive[p.providers]) = {}
        \/ ws.shown.picker # WizNone /\ ~ws.fallback

LEMMA SetServedKept ==
    ASSUME NEW ws, NEW v, NEW p, SetServed(ws, p), WsKept(ws, v) PROVE SetServed(v, p)
BY DEF SetServed, WsKept, WsSteady

(* A snapshot changes the wizard by replacing it as a whole. *)
WsPlain(ws, v) == WsTyped(v) /\ (v.gate => ws.gate)

LEMMA WsWizardPut ==
    ASSUME NEW ws, WsTyped(ws), NEW catalog \in SetCatalogs, NEW mode \in {"Stable", "Development"},
           NEW adapters
    PROVE  LET v == ShowFormal(ws, FreshFormal(NewWizard(NewPicker(catalog), mode, adapters)))
           IN  WsKept(ws, v) /\ v.shown.picker # WizNone /\ v.bundle = ws.bundle /\ v.gate = ws.gate
<1> DEFINE w == NewWizard(NewPicker(catalog), mode, adapters)
           f == FreshFormal(w)
<1>1. NewPicker(catalog) \in SetPicker
    BY SetNewPicker
<1>2. WizTyped(w) /\ w.picker = NewPicker(catalog)
    BY <1>1, SetNewWizard
<1> HIDE DEF w
<1>3. "route" \in DOMAIN f /\ "wizard" \in DOMAIN f /\ f.route = "Landing" /\ f.wizard = w
    BY DEF FreshFormal
<1> HIDE DEF f
<1>4. FormalKept(ws, f) /\ f.wizard.picker # WizNone
    BY <1>1, <1>2, <1>3, SetNoPicker DEF FormalKept, FormalTyped
<1> DEFINE v == ShowFormal(ws, f)
<1>5. WsKept(ws, v) /\ v.shown = f.wizard /\ v.bundle = ws.bundle /\ v.gate = ws.gate
    BY <1>4, WsShowKept
<1> QED BY <1>4, <1>5 DEF f, w

LEMMA WsFallback ==
    ASSUME NEW ws, WsTyped(ws), NEW x \in BOOLEAN
    PROVE  LET v == [ws EXCEPT !.fallback = x]
           IN  WsPlain(ws, v) /\ v.shown = ws.shown /\ v.fallback = x /\ v.gate = ws.gate
<1> DEFINE v == [ws EXCEPT !.fallback = x]
<1>1. /\ \A k \in WsFields : k \in DOMAIN v
      /\ v.formal = ws.formal /\ v.shown = ws.shown /\ v.screen = ws.screen /\ v.bundle = ws.bundle
      /\ v.reviewed = ws.reviewed /\ v.seen = ws.seen /\ v.fallback = x /\ v.gate = ws.gate
    BY DEF WsTyped, WsFields
<1> HIDE DEF v
<1>2. WsTyped(v)
    BY <1>1 DEF WsTyped
<1> QED BY <1>1, <1>2 DEF v, WsPlain

LEMMA WsRestoredTyped ==
    ASSUME NEW ws, WsTyped(ws), NEW values \in SetValues
    PROVE  LET v == restore_materialized_bundle(ws, values)
           IN  WsKept(ws, v) /\ v.shown.picker = ws.shown.picker /\ v.gate = ws.gate
<1> DEFINE w == [ws.shown EXCEPT !.values = values]
           v == restore_materialized_bundle(ws, values)
<1>1. /\ \A k \in WizFields : k \in DOMAIN w
      /\ w.step = ws.shown.step /\ w.values = values /\ w.picker = ws.shown.picker
      /\ w.auth = ws.shown.auth /\ w.mode = ws.shown.mode
    BY WizTypedIs DEF WsTyped, WizFields
<1>2. v = [ws EXCEPT !.shown = w, !.bundle = values]
    BY DEF restore_materialized_bundle, restore_values
<1> HIDE DEF w, v
<1>3. WizTyped(w)
    BY <1>1, WizTypedIs DEF WsTyped
<1>4. /\ \A k \in WsFields : k \in DOMAIN v
      /\ v.formal = ws.formal /\ v.shown = w /\ v.screen = ws.screen /\ v.bundle = values
      /\ v.reviewed = ws.reviewed /\ v.seen = ws.seen /\ v.fallback = ws.fallback /\ v.gate = ws.gate
    BY <1>2 DEF WsTyped, WsFields
<1> QED BY <1>1, <1>3, <1>4 DEF v, WsKept, WsTyped, WsSteady

LEMMA WsCatalogTyped ==
    ASSUME NEW ws, WsTyped(ws), NEW p \in SetProjection
    PROVE  LET v == SnapshotCatalog(ws, p)
           IN  /\ WsPlain(ws, v) /\ v.gate = ws.gate /\ SetServed(v, p)
               /\ SetServed(ws, p) => v = ws
<1> DEFINE catalogs == IF p.agents /\ p.providers # WizNone
                       THEN wizard_catalog_from_snapshot(WizLive[p.providers]) ELSE {}
           catalog == CHOOSE c \in catalogs : TRUE
           replaced == ShowFormal(ws, FreshFormal(LiveWizard(WizLive[p.providers], catalog)))
           filled == IF ws.bundle = WizNone THEN replaced ELSE restore_materialized_bundle(replaced, ws.bundle)
           v == SnapshotCatalog(ws, p)
<1>1. CASE catalogs = {} \/ (ws.shown.picker # WizNone /\ ~ws.fallback)
  <2>1. v = ws
      BY <1>1 DEF SnapshotCatalog
  <2>2. SetServed(ws, p)
      BY <1>1 DEF SetServed
  <2> QED BY <2>1, <2>2 DEF WsPlain
<1>2. CASE catalogs # {} /\ ~(ws.shown.picker # WizNone /\ ~ws.fallback)
  <2>1. v = [filled EXCEPT !.fallback = FALSE]
      BY <1>2 DEF SnapshotCatalog
  <2>2. p.agents /\ p.providers # WizNone /\ catalog \in wizard_catalog_from_snapshot(WizLive[p.providers])
      BY <1>2
  <2>3. p.providers \in SetGenerations
      BY <2>2 DEF SetProjection
  <2>4. catalog \in SetCatalogs
      BY <2>2, <2>3 DEF SetCatalogs
  <2>5. ~SetServed(ws, p)
      BY <1>2, <2>2 DEF SetServed
  <2> HIDE DEF catalog, catalogs
  <2>6. /\ WsKept(ws, replaced) /\ replaced.shown.picker # WizNone /\ replaced.bundle = ws.bundle
        /\ replaced.gate = ws.gate
    <3> DEFINE adapters == CHOOSE a \in from_provider_catalog(WizLive[p.providers]) : TRUE
    <3>1. \/ LiveWizard(WizLive[p.providers], catalog) = NewWizard(NewPicker(catalog), "Stable", adapters)
          \/ LiveWizard(WizLive[p.providers], catalog) =
                NewWizard(NewPicker(catalog), "Development", DevelopmentAdapters)
        BY DEF LiveWizard, stable_with_catalog_and_adapter, with_catalog
    <3> HIDE DEF adapters
    <3>2. \E a : \E m \in {"Stable", "Development"} :
             LiveWizard(WizLive[p.providers], catalog) = NewWizard(NewPicker(catalog), m, a)
        BY <3>1, Zenon
    <3>3. PICK a : \E m \in {"Stable", "Development"} :
             LiveWizard(WizLive[p.providers], catalog) = NewWizard(NewPicker(catalog), m, a)
        BY <3>2
    <3>5. PICK m \in {"Stable", "Development"} :
             LiveWizard(WizLive[p.providers], catalog) = NewWizard(NewPicker(catalog), m, a)
        BY <3>3
    <3>4. replaced = ShowFormal(ws, FreshFormal(NewWizard(NewPicker(catalog), m, a)))
        BY <3>5
    <3> QED BY <2>4, <3>4, WsWizardPut
  <2> HIDE DEF replaced
  <2>7. WsTyped(replaced)
      BY <2>6 DEF WsKept
  <2>8. WsKept(ws, filled) /\ filled.shown.picker # WizNone /\ filled.gate = ws.gate
    <3>1. CASE ws.bundle = WizNone
        BY <2>6, <3>1
    <3>2. CASE ws.bundle # WizNone
      <4>1. ws.bundle \in SetValues
          BY <3>2 DEF WsTyped
      <4> QED BY <2>6, <2>7, <3>2, <4>1, WsRestoredTyped, WsKeptAgain
    <3> QED BY <3>1, <3>2
  <2> HIDE DEF filled, v
  <2>9. WsPlain(filled, v) /\ v.shown = filled.shown /\ v.fallback = FALSE /\ v.gate = filled.gate
      BY <2>1, <2>8, WsFallback DEF WsKept
  <2> QED BY <2>5, <2>8, <2>9 DEF v, WsPlain, WsKept, WsSteady, SetServed
<1> QED BY <1>1, <1>2

LEMMA WsReviewTyped ==
    ASSUME NEW ws, WsTyped(ws), NEW p \in SetProjection
    PROVE  LET v == SnapshotReview(ws, p) IN WsKept(ws, v) /\ v.shown = ws.shown /\ v.gate = ws.gate
<1>1. CASE ~(p.agents /\ p.providers # WizNone)
    BY <1>1, WsKeptSame DEF SnapshotReview
<1>2. CASE p.agents /\ p.providers # WizNone
  <2> DEFINE drafts == from_wizard_values(ws.shown.values, p.providers)
             d == CHOOSE x \in drafts : TRUE
             u == [ws EXCEPT !.reviewed = d]
             none == [ws EXCEPT !.reviewed = WizNone]
  <2>1. p.providers \in SetGenerations /\ ws.shown.values \in SetValues
      BY <1>2, WizTypedIs DEF SetProjection, WsTyped
  <2>2. drafts \subseteq SetDraft
      BY <2>1, SetDraftTyped
  <2>3. SnapshotReview(ws, p) = IF drafts = {} THEN none ELSE [u EXCEPT !.bundle = WizNone]
      BY <1>2 DEF SnapshotReview, set_reviewed_provider_setup, clear_preflight
  <2>4. drafts # {} => d \in drafts
      OBVIOUS
  <2> HIDE DEF drafts, d
  <2>5. WsKept(ws, none) /\ none.shown = ws.shown /\ none.gate = ws.gate
      BY WsReviewedKept
  <2>6. CASE drafts = {}
      BY <2>3, <2>5, <2>6
  <2>7. CASE drafts # {}
    <3>1. WsKept(ws, u) /\ u.shown = ws.shown /\ u.gate = ws.gate
        BY <2>2, <2>4, <2>7, WsReviewedKept
    <3> HIDE DEF u
    <3> DEFINE v == [u EXCEPT !.bundle = WizNone]
    <3>2. WsKept(u, v) /\ v.shown = u.shown /\ v.gate = u.gate
        BY <3>1, WsBundleKept DEF WsKept
    <3>3. SnapshotReview(ws, p) = v
        BY <2>3, <2>7
    <3> HIDE DEF v
    <3> QED BY <3>1, <3>2, <3>3, WsKeptAgain
  <2> QED BY <2>6, <2>7
<1> QED BY <1>1, <1>2

LEMMA WsDevelopmentTyped ==
    ASSUME NEW ws, WsTyped(ws)
    PROVE  LET v == ensure_development_catalog(ws)
           IN  /\ WsPlain(ws, v)
               /\ \A p : SetServed(ws, p) => SetServed(v, p)
<1> DEFINE v == ensure_development_catalog(ws)
           u == ShowFormal(ws, FreshFormal(with_catalog(WizDevelopment)))
<1>1. CASE ws.shown.picker # WizNone
    BY <1>1 DEF ensure_development_catalog, WsPlain
<1>2. CASE ws.shown.picker = WizNone
  <2>1. v = [u EXCEPT !.fallback = TRUE]
      BY <1>2 DEF ensure_development_catalog
  <2>2. WizDevelopment \in SetCatalogs
      BY DEF SetCatalogs
  <2>3. WsKept(ws, u) /\ u.gate = ws.gate
      BY <2>2, WsWizardPut DEF with_catalog
  <2> HIDE DEF u, v
  <2>4. WsPlain(u, v)
      BY <2>1, <2>3, WsFallback DEF WsKept
  <2> QED BY <1>2, <2>3, <2>4 DEF v, WsPlain, SetServed
<1> QED BY <1>1, <1>2

LEMMA WsSnapshotTyped ==
    ASSUME NEW ws, WsTyped(ws), NEW p \in SetProjection
    PROVE  LET v == apply_live_snapshot(ws, p)
           IN  /\ WsPlain(ws, v) /\ SetServed(v, p)
               /\ (SetServed(ws, p) /\ p.configured # FALSE) => v.shown = ws.shown /\ v.gate = ws.gate
<1> DEFINE a == [ws EXCEPT !.seen = p.agents \/ p.providers # WizNone]
           b == SnapshotCatalog(a, p)
           c == SnapshotReview(b, p)
           d == ensure_development_catalog(c)
           v == apply_live_snapshot(ws, p)
<1>1. v = IF p.configured = FALSE THEN open_wizard(d) ELSE c
    BY DEF apply_live_snapshot
<1> HIDE DEF v
<1>2. WsKept(ws, a) /\ a.shown = ws.shown /\ a.gate = ws.gate
  <2> DEFINE x == p.agents \/ p.providers # WizNone
  <2>1. x \in BOOLEAN
      OBVIOUS
  <2> HIDE DEF x
  <2>2. LET y == [ws EXCEPT !.seen = x] IN WsKept(ws, y) /\ y.shown = ws.shown /\ y.gate = ws.gate
      BY <2>1, WsSeenKept
  <2> QED BY <2>2 DEF x
<1>3. SetServed(ws, p) => SetServed(a, p)
    BY <1>2, SetServedKept
<1> HIDE DEF a
<1>4. WsPlain(a, b) /\ b.gate = a.gate /\ SetServed(b, p) /\ (SetServed(a, p) => b = a)
    BY <1>2, WsCatalogTyped DEF WsKept
<1> HIDE DEF b
<1>5. WsKept(b, c) /\ c.shown = b.shown /\ c.gate = b.gate
    BY <1>4, WsReviewTyped DEF WsPlain
<1> HIDE DEF c
<1>6. WsPlain(ws, c) /\ SetServed(c, p)
    BY <1>2, <1>4, <1>5, SetServedKept DEF WsPlain, WsKept, WsSteady
<1>7. WsPlain(c, d) /\ SetServed(d, p)
    BY <1>6, WsDevelopmentTyped DEF WsPlain
<1> HIDE DEF d
<1>8. WsKept(d, open_wizard(d))
    BY <1>7, WsOpenKept DEF WsPlain
<1>9. SetServed(open_wizard(d), p)
    BY <1>7, <1>8, SetServedKept
<1> QED BY <1>1, <1>2, <1>3, <1>4, <1>5, <1>6, <1>7, <1>8, <1>9 DEF v, WsPlain, WsKept, WsSteady

(* The inductive invariant of the types, and of the gate. *)
SetWorldType ==
    [version : SetVersions, configured : BOOLEAN, generation : SetGenerations,
     ended : {"no", "rejected", "failed"}, projection : SetProjection]
SetKnown(world) == world.version = "full" => world.projection.agents /\ world.projection.providers # WizNone
SetTypeInv ==
    /\ WsTyped(set)
    /\ setWorld \in SetWorldType
    /\ SetKnown(setWorld)
    /\ SetServed(set, setWorld.projection)

LEMMA SetProjectedTyped ==
    ASSUME NEW w, w.configured \in BOOLEAN, NEW g \in SetGenerations
    PROVE  /\ Projected(w, g) \in SetProjection
           /\ w.version = "full" => Projected(w, g).agents /\ Projected(w, g).providers # WizNone
<1>1. WizNone \notin SetGenerations
    BY SetAssumption
<1> QED BY <1>1 DEF Projected, SetProjection

LEMMA SetBeginTyped == WsTyped(WorkspaceDefault)
<1> DEFINE a == WizardDefault
           b == WizardStable
           ws == WorkspaceDefault
<1>1. WizTyped(a) /\ WizTyped(b)
    BY SetNewWizard DEF WizardDefault, WizardStable
<1> HIDE DEF a, b
<1>2. /\ \A k \in WsFields : k \in DOMAIN ws
      /\ ws.formal = FreshFormal(a) /\ ws.shown = b /\ ws.screen = "Landing" /\ ws.bundle = WizNone
      /\ ws.reviewed = WizNone /\ ws.seen = FALSE /\ ws.fallback = FALSE /\ ws.gate = FALSE
    BY DEF WorkspaceDefault, WsFields, a, b
<1>3. FormalTyped(FreshFormal(a))
    BY <1>1 DEF FreshFormal, FormalTyped
<1> HIDE DEF ws
<1>4. WsTyped(ws)
    BY <1>1, <1>2, <1>3 DEF WsTyped
<1> QED BY <1>4 DEF ws

LEMMA SetLiveRouteTyped ==
    ASSUME NEW ws, WsWhole(ws), WsTyped(ws) PROVE WsKept(ws, use_live_provider_context(ws))
<1> DEFINE x == [ws.shown.values EXCEPT ![WizRecording] = {"live"}]
           w == [ws.formal.wizard EXCEPT !.values = x]
           f == [ws.formal EXCEPT !.wizard = w]
           u == ShowFormal(ws, f)
           v == use_live_provider_context(ws)
<1>1. x \in SetValues
  <2>1. ws.shown.values \in SetValues
      BY WizTypedIs DEF WsTyped
  <2>4. "live" \in SetValueOf(6)
      BY SetSteps DEF SetValueOf
  <2>2. {"live"} \subseteq SetValueOf(6) /\ 6 \in 1..7
      BY <2>4
  <2>3. [ws.shown.values EXCEPT ![6] = {"live"}] \in SetValues
      BY <2>1, <2>2, SetValuesPut
  <2> QED BY <2>3, SetSteps, Zenon
<1>2. v = [u EXCEPT !.screen = "Other"]
    BY DEF use_live_provider_context, restore_values, WsTyped, FormalTyped
<1> HIDE DEF x, v
<1>3. /\ \A k \in WizFields : k \in DOMAIN w
      /\ w.step = ws.formal.wizard.step /\ w.values = x /\ w.picker = ws.formal.wizard.picker
      /\ w.auth = ws.formal.wizard.auth /\ w.mode = ws.formal.wizard.mode
    BY WizTypedIs DEF WsTyped, FormalTyped, WizFields
<1> HIDE DEF w
<1>4. WizTyped(w)
    BY <1>1, <1>3, WizTypedIs DEF WsTyped, FormalTyped
<1>5. "route" \in DOMAIN f /\ "wizard" \in DOMAIN f /\ f.route = ws.formal.route /\ f.wizard = w
    BY DEF WsTyped, FormalTyped
<1> HIDE DEF f
<1>6. FormalKept(ws, f)
    BY <1>3, <1>4, <1>5 DEF FormalKept, FormalTyped, WsTyped, WsWhole
<1>7. WsKept(ws, u)
    BY <1>6, WsShowKept
<1> HIDE DEF u
<1>8. WsKept(u, v)
    BY <1>2, <1>7, WsScreenKept DEF WsKept
<1> QED BY <1>7, <1>8, WsKeptAgain DEF v

LEMMA SetTypeInit == SetInit => SetTypeInv
<1> SUFFICES ASSUME SetInit PROVE SetTypeInv
    OBVIOUS
<1>1. PICK version \in SetVersions, durable \in SetDurable, configured \in BOOLEAN,
           g \in SetGenerations, route \in {"production", "development", "live"} :
        LET p == Projected([version |-> version, configured |-> configured], g)
            restored == IF durable = WizNone THEN WorkspaceDefault
                        ELSE restore_materialized_bundle(WorkspaceDefault, durable)
            first == apply_live_snapshot(restored, p)
            context == IF route = "production" THEN first ELSE use_development_context(first)
        IN  /\ setWorld = [version |-> version, configured |-> configured, generation |-> g,
                           ended |-> "no", projection |-> p]
            /\ route = "live" => version = "full"
            /\ set = IF route = "live" THEN use_live_provider_context(context) ELSE context
    BY Zenon DEF SetInit
<1> DEFINE i == [version |-> version, configured |-> configured]
           p == Projected(i, g)
           restored == IF durable = WizNone THEN WorkspaceDefault
                       ELSE restore_materialized_bundle(WorkspaceDefault, durable)
           first == apply_live_snapshot(restored, p)
           context == IF route = "production" THEN first ELSE use_development_context(first)
<1>2. /\ setWorld = [version |-> version, configured |-> configured, generation |-> g,
                     ended |-> "no", projection |-> p]
      /\ set = IF route = "live" THEN use_live_provider_context(context) ELSE context
    BY <1>1
<1>3. p \in SetProjection /\ (version = "full" => p.agents /\ p.providers # WizNone)
  <2>1. i.configured \in BOOLEAN /\ i.version = version
      OBVIOUS
  <2> HIDE DEF i
  <2> QED BY <2>1, SetProjectedTyped
<1> HIDE DEF p
<1>4. setWorld \in SetWorldType /\ SetKnown(setWorld) /\ setWorld.projection = p
    BY <1>2, <1>3 DEF SetWorldType, SetKnown
<1>5. WsTyped(restored)
  <2>1. durable # WizNone => durable \in SetValues
      BY SetAssumption
  <2>2. durable # WizNone => WsTyped(restore_materialized_bundle(WorkspaceDefault, durable))
      BY <2>1, SetBeginTyped, WsRestoredTyped DEF WsKept
  <2> QED BY <2>2, SetBeginTyped
<1>6. WsFirst(restored)
  <2>1. durable # WizNone => DOMAIN durable = WizSteps
    <3>1. durable # WizNone => durable \in SetValues
        BY SetAssumption
    <3> QED BY <3>1, SetValuesHave DEF WizSteps
  <2>2. WsWhole(WorkspaceDefault) /\ WsFresh(WorkspaceDefault)
      BY WsBegin DEF WsFirst
  <2> QED BY <2>1, <2>2, WsBegin, WsRestored
<1> HIDE DEF restored
<1>7. WsTyped(first) /\ SetServed(first, p)
    BY <1>3, <1>5, WsSnapshotTyped DEF WsPlain
<1>8. WsFirst(first)
  <2>1. WsWhole(restored)
      BY <1>6 DEF WsFirst
  <2> QED BY <1>6, <2>1, WsSnapshot
<1> HIDE DEF first
<1>9. WsTyped(context) /\ SetServed(context, p) /\ WsWhole(context)
  <2> DEFINE e == ensure_development_catalog(first)
  <2>1. WsWhole(first)
      BY <1>8 DEF WsFirst
  <2>2. WsFirst(e)
      BY <1>8, <2>1, WsDevelopment
  <2>3. WsTyped(e) /\ SetServed(e, p)
      BY <1>7, WsDevelopmentTyped DEF WsPlain
  <2>4. context = first \/ context = e
      BY DEF use_development_context
  <2> HIDE DEF e, context
  <2> QED BY <1>7, <2>1, <2>2, <2>3, <2>4 DEF WsFirst
<1> HIDE DEF context
<1>10. WsKept(context, use_live_provider_context(context)) /\ WsKept(context, context)
    BY <1>9, SetLiveRouteTyped, WsKeptSame
<1>11. WsKept(context, set)
    BY <1>2, <1>10
<1>12. WsTyped(set) /\ SetServed(set, p)
    BY <1>9, <1>11, SetServedKept DEF WsKept
<1> QED BY <1>4, <1>12 DEF SetTypeInv

(* A key changes the workspace alone, and keeps its picker and its gate. *)
SetKeyKept == WsKept(set, set') /\ UNCHANGED setWorld

LEMMA SetShowsKept ==
    ASSUME WsWhole(set), WsTyped(set), NEW R, \A r \in R : WizKept(Formal, r)
    PROVE  /\ WsKept(set, ShowIfOk(set, FormalApply(set, R)))
           /\ WsKept(set, ShowAlways(set, FormalApply(set, R)))
<1>1. \A f \in FormalApply(set, R) : FormalKept(set, f)
    BY WsAppliedKept, WsWholePair DEF Formal
<1> QED BY <1>1, WsShowOkKept, WsWholePair

LEMMA SetFormalTyped ==
    ASSUME WsWhole(set), WsTyped(set)
    PROVE  WizTyped(Formal) /\ set.shown.step = Formal.step /\ set.shown.picker = Formal.picker /\ WizTyped(set.shown)
BY DEF WsTyped, FormalTyped, WsWhole, Formal

LEMMA SetAuthKept == ASSUME WsWhole(set), WsTyped(set), KeyAuth PROVE SetKeyKept
<1>1. PICK e \in {"Enroll", "Test", "Rotate", "Reset", "SelectFixture", "SelectNone", "Restart"} :
         set' = ShowAlways(set, FormalApply(set, DevelopmentAuth(Formal, e)))
    BY DEF KeyAuth
<1>2. \A r \in DevelopmentAuth(Formal, e) : WizKept(Formal, r)
    BY SetFormalTyped, SetCredential
<1> QED BY <1>1, <1>2, SetShowsKept DEF SetKeyKept, KeyAuth

LEMMA SetMoveKept == ASSUME WsWhole(set), WsTyped(set), KeyMove PROVE SetKeyKept
<1>1. CASE \E down \in BOOLEAN :
              set' = ShowAlways(set, FormalApply(set,
                        IF Formal.picker = WizNone THEN {}
                        ELSE {[Formal EXCEPT !.picker = move_cursor(@, down)]}))
  <2>1. PICK down \in BOOLEAN :
              set' = ShowAlways(set, FormalApply(set,
                        IF Formal.picker = WizNone THEN {}
                        ELSE {[Formal EXCEPT !.picker = move_cursor(@, down)]}))
      BY <1>1
  <2> DEFINE d == move_cursor(Formal.picker, down)
             R == IF Formal.picker = WizNone THEN {} ELSE {[Formal EXCEPT !.picker = d]}
  <2>2. set' = ShowAlways(set, FormalApply(set, R))
      BY <2>1
  <2>3. Formal.picker # WizNone => d \in SetPicker
      BY SetFormalTyped, WizTypedIs, SetCursorPicker
  <2> HIDE DEF d
  <2>4. \A r \in R : WizKept(Formal, r)
      BY <2>3, SetFormalTyped, SetPutPicker
  <2> HIDE DEF R
  <2> QED BY <2>2, <2>4, SetShowsKept DEF SetKeyKept, KeyMove
<1>2. CASE set' = ShowAlways(set, FormalApply(set, move_bounded_choice(Formal)))
  <2>1. \A r \in move_bounded_choice(Formal) : WizKept(Formal, r)
      BY SetFormalTyped, SetBounded
  <2> QED BY <1>2, <2>1, SetShowsKept DEF SetKeyKept, KeyMove
<1> QED BY <1>1, <1>2 DEF KeyMove

LEMMA SetToggleKept == ASSUME WsWhole(set), WsTyped(set), KeyToggle PROVE SetKeyKept
<1>1. Formal.step \in WizCatalogSteps
    BY SetFormalTyped DEF KeyToggle, WizCatalogSteps
<1>2. \A r \in select_catalog_cursor(Formal) : WizKept(Formal, r)
    BY <1>1, SetFormalTyped, SetSelected
<1>3. \A r \in WizToggleVisible(Formal) : WizKept(Formal, r)
    BY <1>1, SetFormalTyped, SetAllAgents
<1> QED BY <1>2, <1>3, SetShowsKept DEF KeyToggle, SetKeyKept

LEMMA SetCancelKept == ASSUME WsWhole(set), WsTyped(set), KeyCancel PROVE SetKeyKept
<1> DEFINE G == Leave(FormalApply(set, {cancel(Formal)}))
           u == ShowIfOk(set, G)
<1>1. \A r \in {cancel(Formal)} : WizKept(Formal, r)
    BY SetFormalTyped, SetCancelled
<1>2. \A f \in G : FormalKept(set, f)
    BY <1>1, WsAppliedKept, WsWholePair DEF Formal
<1>3. set' = set \/ set' = [u EXCEPT !.screen = "Landing"]
    BY DEF KeyCancel
<1> HIDE DEF G
<1>4. WsKept(set, u)
    BY <1>2, WsShowOkKept, WsWholePair
<1> HIDE DEF u
<1>5. WsKept(set, [u EXCEPT !.screen = "Landing"])
    BY <1>4, WsScreenKept, WsKeptAgain DEF WsKept
<1> QED BY <1>3, <1>5, WsKeptSame DEF SetKeyKept, KeyCancel

LEMMA SetQueryKept ==
    ASSUME WsWhole(set), WsTyped(set), NEW q \in Seq(SUBSET WizId) PROVE WsKept(set, SetQuery(q))
<1> DEFINE d == set_query(Formal.picker, q)
           R == IF Formal.picker = WizNone THEN {} ELSE {[Formal EXCEPT !.picker = d]}
<1>1. Formal.picker # WizNone => d \in SetPicker
    BY SetFormalTyped, WizTypedIs, SetQueryPicker
<1>2. SetQuery(q) = ShowIfOk(set, FormalApply(set, R))
    BY DEF SetQuery
<1> HIDE DEF d
<1>3. \A r \in R : WizKept(Formal, r)
    BY <1>1, SetFormalTyped, SetPutPicker
<1> HIDE DEF R
<1> QED BY <1>2, <1>3, SetShowsKept

LEMMA SetTextKept ==
    ASSUME WsWhole(set), WsTyped(set), set.shown.step \notin WizBoundedSteps, NEW x \in SetTexts[set.shown.step]
    PROVE  WsKept(set, ShowIfOk(set, FormalApply(set, set_value(Formal, x))))
<1>1. Formal.step \in 1..7 => x \subseteq SetValueOf(Formal.step)
  <2> SUFFICES ASSUME Formal.step \in 1..7 PROVE x \subseteq SetValueOf(Formal.step)
      OBVIOUS
  <2>1. Formal.step \in WizCatalogSteps
      BY SetFormalTyped, SetSteps
  <2>2. x \subseteq WizId
      BY <2>1, SetFormalTyped, SetAssumption
  <2> QED BY <2>1, <2>2, SetCatalogValue
<1>2. \A r \in set_value(Formal, x) : WizKept(Formal, r)
    BY <1>1, SetFormalTyped, SetValueTyped
<1> QED BY <1>2, SetShowsKept

LEMMA SetCharKept == ASSUME WsWhole(set), WsTyped(set), KeyChar \/ KeyBackspace PROVE SetKeyKept
<1>1. UNCHANGED setWorld
    BY DEF KeyChar, KeyBackspace
<1>2. AtPicker => set.shown.picker \in SetPicker /\ set.shown.picker.query \in Seq(SUBSET WizId)
    BY SetFormalTyped, WizTypedIs, SetPickerIs DEF AtPicker
<1>3. CASE KeyChar
  <2>1. ASSUME AtPicker, NEW m \in SetMatches,
               set' = SetQuery(Append(set.shown.picker.query, {o \in m : WizMatches(set.shown.picker, o)}))
        PROVE  WsKept(set, set')
    <3> DEFINE n == {o \in m : WizMatches(set.shown.picker, o)}
               q == Append(set.shown.picker.query, n)
    <3>1. n \in SUBSET WizId
        BY SetAssumption
    <3> HIDE DEF n
    <3>2. q \in Seq(SUBSET WizId)
        BY <1>2, <2>1, <3>1
    <3>3. set' = SetQuery(q)
        BY <2>1 DEF n
    <3> HIDE DEF q
    <3> QED BY <3>2, <3>3, SetQueryKept
  <2>2. ASSUME NEW x \in SetTexts[set.shown.step], set.shown.step \notin WizBoundedSteps,
               set' = ShowIfOk(set, FormalApply(set, set_value(Formal, x)))
        PROVE  WsKept(set, set')
      BY <2>2, SetTextKept
  <2> QED BY <1>1, <1>3, <2>1, <2>2 DEF KeyChar, SetKeyKept
<1>4. CASE KeyBackspace
  <2>1. ASSUME set' = wizard_back_or_cancel(set) PROVE WsKept(set, set')
      BY <2>1, WsBackKept
  <2>2. ASSUME AtPicker, set.shown.picker.query # <<>>,
               set' = SetQuery(SubSeq(set.shown.picker.query, 1, Len(set.shown.picker.query) - 1))
        PROVE  WsKept(set, set')
    <3> DEFINE t == set.shown.picker.query
               q == SubSeq(t, 1, Len(t) - 1)
    <3>1. t \in Seq(SUBSET WizId)
        BY <1>2, <2>2
    <3>2. set' = SetQuery(q)
        BY <2>2
    <3> HIDE DEF t
    <3>3. q \in Seq(SUBSET WizId)
        BY <3>1
    <3> HIDE DEF q
    <3> QED BY <3>2, <3>3, SetQueryKept
  <2>3. ASSUME NEW x \in SetTexts[set.shown.step], set.shown.step \notin WizBoundedSteps,
               set' = ShowIfOk(set, FormalApply(set, set_value(Formal, x)))
        PROVE  WsKept(set, set')
      BY <2>3, SetTextKept
  <2> QED BY <1>1, <1>4, <2>1, <2>2, <2>3 DEF KeyBackspace, SetKeyKept
<1> QED BY <1>3, <1>4

LEMMA SetPrepareKept == ASSUME WsTyped(set), PreparePreflight PROVE SetKeyKept
<1> DEFINE values == set.shown.values
           recording == IF values[WizRecording] # {} THEN values[WizRecording]
                        ELSE IF set.bundle # WizNone THEN set.bundle[WizRecording] ELSE {"local-mock"}
           x == {"all defaults"}
           y == {"strict offline replay"}
           a == [values EXCEPT ![4] = x]
           b == [a EXCEPT ![6] = recording]
           c == [b EXCEPT ![7] = y]
<1>1. PICK d \in build_preflight_bundle(set) : set' = [set EXCEPT !.bundle = d]
    BY DEF PreparePreflight
<1>2. d = [values EXCEPT ![WizConfiguration] = {"all defaults"},
                         ![WizRecording] = recording, ![WizReplay] = {"strict offline replay"}]
    BY SetSteps DEF build_preflight_bundle
<1>3. values \in SetValues /\ DOMAIN values = 1..7
    BY WizTypedIs, SetValuesHave DEF WsTyped
<1>4. "all defaults" \in SetValueOf(4) /\ "local-mock" \in SetValueOf(6) /\ "strict offline replay" \in SetValueOf(7)
    BY SetSteps DEF SetValueOf
<1>5. recording \subseteq SetValueOf(6)
  <2>1. values[6] \subseteq SetValueOf(6)
      BY <1>3, SetValuesHave
  <2>2. set.bundle # WizNone => set.bundle[6] \subseteq SetValueOf(6)
      BY SetValuesHave DEF WsTyped
  <2> QED BY <1>4, <2>1, <2>2, SetSteps, Zenon
<1>6. d = c
    BY <1>2, <1>3, SetSteps
<1>10. x \subseteq SetValueOf(4) /\ y \subseteq SetValueOf(7)
    BY <1>4, Zenon
<1> HIDE DEF values, recording, x, y
<1>7. a \in SetValues
  <2>1. values \in SetValues /\ 4 \in 1..7
      BY <1>3
  <2> QED BY <1>10, <2>1, SetValuesPut, Zenon
<1> HIDE DEF a
<1>8. b \in SetValues
    BY <1>5, <1>7, SetValuesPut
<1> HIDE DEF b
<1>9. c \in SetValues
    BY <1>8, <1>10, SetValuesPut
<1> QED BY <1>1, <1>6, <1>9, WsBundleKept DEF SetKeyKept, PreparePreflight

(* Enter at a step: the focused option is taken, and the step left. *)
LEMMA SetAfterKept ==
    ASSUME WsWhole(set), WsTyped(set), KeyEnter, set.shown.step # WizReview PROVE SetKeyKept
<1> DEFINE agentSelected == /\ set.shown.picker # WizNone
                            /\ set.shown.picker.kind = WizAgent /\ set.shown.picker.agents # {}
           selects == ~agentSelected /\ AtPicker
           R == IF selects THEN select_catalog_cursor(Formal) ELSE advance(Formal)
           first == FormalApply(set, R)
           chosen == ShowIfOk(set, first)
           second == FormalApply(chosen, advance(chosen.formal.wizard))
           after == IF selects /\ first # {} THEN ShowIfOk(chosen, second) ELSE chosen
<1>1. set' = after /\ UNCHANGED setWorld
    BY DEF KeyEnter
<1>2. \A r \in R : WizKept(Formal, r)
  <2>1. selects => Formal.step \in WizCatalogSteps
      BY SetFormalTyped DEF AtPicker
  <2>2. selects => \A r \in select_catalog_cursor(Formal) : WizKept(Formal, r)
      BY <2>1, SetFormalTyped, SetSelected
  <2>3. \A r \in advance(Formal) : WizKept(Formal, r)
      BY SetFormalTyped, SetAdvanced
  <2> HIDE DEF selects
  <2> QED BY <2>2, <2>3
<1> HIDE DEF R, selects
<1>3. \A f \in first : FormalKept(set, f)
    BY <1>2, WsAppliedKept, WsWholePair DEF Formal
<1> HIDE DEF first
<1>4. WsKept(set, chosen) /\ WsPair(chosen)
    BY <1>3, WsShowOkKept, WsWholePair
<1> HIDE DEF chosen
<1>5. WsTyped(chosen) /\ WizTyped(chosen.formal.wizard)
    BY <1>4 DEF WsKept, WsTyped, FormalTyped
<1>6. \A f \in second : FormalKept(chosen, f)
    BY <1>4, <1>5, SetAdvanced, WsAppliedKept
<1> HIDE DEF second
<1>7. WsKept(chosen, ShowIfOk(chosen, second))
    BY <1>4, <1>5, <1>6, WsShowOkKept
<1>8. WsKept(set, after)
    BY <1>4, <1>7, WsKeptAgain
<1> QED BY <1>1, <1>8 DEF SetKeyKept

(* Enter at the review: the draft is completed, and applied or not. *)
SetGiven ==
    \E s \in wizard_configuration_selection(set'.shown.values) :
        into_selection(s, WizLive[setWorld.projection.providers])

LEMMA SetCompletes ==
    ASSUME SetTypeInv, NEW ws, WsKept(set, ws), WizardCompletion(ws)
    PROVE  SetTypeInv' /\ (set'.gate /\ ~set.gate => SetGiven)
<1> DEFINE p == setWorld.projection
           q == [p EXCEPT !.configured = TRUE]
           open == [ws EXCEPT !.gate = TRUE]
           drafts == {d \in CompletionDrafts(ws.shown.values, p) : GateAdmits(ws, d, p)}
<1>1. WsTyped(ws) /\ SetServed(ws, p) /\ p \in SetProjection
    BY SetServedKept DEF SetTypeInv, WsKept, SetWorldType
<1>2. CASE drafts # {} /\ setWorld.version = "full"
           /\ setWorld' = [setWorld EXCEPT !.projection.configured = TRUE, !.configured = TRUE]
           /\ set' = apply_live_snapshot(open, q)
  <2>1. q \in SetProjection /\ q.agents = p.agents /\ q.providers = p.providers /\ q.configured = TRUE
      BY <1>1 DEF SetProjection
  <2>2. /\ setWorld' \in SetWorldType /\ setWorld'.projection = q /\ setWorld'.version = setWorld.version
      BY <1>2, <2>1 DEF SetTypeInv, SetWorldType
  <2>3. p.agents /\ p.providers # WizNone
      BY <1>2 DEF SetTypeInv, SetKnown
  <2>4. SetKnown(setWorld')
      BY <2>1, <2>2, <2>3 DEF SetKnown
  <2>5. PICK d \in from_wizard_values(ws.shown.values, p.providers) : TRUE
      BY <1>2, <2>3 DEF CompletionDrafts
  <2>6. PICK s \in wizard_configuration_selection(ws.shown.values) : into_selection(s, WizLive[p.providers])
      BY <2>5 DEF from_wizard_values
  <2>7. WsTyped(open) /\ open.shown = ws.shown /\ open.fallback = ws.fallback
      BY <1>1, WsGateTyped
  <2> HIDE DEF open
  <2>8. SetServed(open, q)
      BY <1>1, <2>1, <2>7 DEF SetServed
  <2> HIDE DEF q
  <2>9. WsTyped(set') /\ SetServed(set', q) /\ set'.shown = open.shown
      BY <1>2, <2>1, <2>7, <2>8, WsSnapshotTyped DEF WsPlain
  <2>10. SetGiven
      BY <2>6, <2>7, <2>9 DEF SetGiven
  <2> QED BY <2>2, <2>4, <2>9, <2>10 DEF SetTypeInv
<1>3. CASE set' = ws /\ \E e \in {"rejected", "failed"} : setWorld' = [setWorld EXCEPT !.ended = e]
  <2>1. setWorld' \in SetWorldType /\ setWorld'.projection = p /\ setWorld'.version = setWorld.version
      BY <1>3 DEF SetTypeInv, SetWorldType
  <2>2. SetKnown(setWorld')
      BY <2>1 DEF SetKnown, SetTypeInv
  <2>3. ~(set'.gate /\ ~set.gate)
      BY <1>3 DEF WsKept, WsSteady
  <2> QED BY <1>1, <1>3, <2>1, <2>2, <2>3 DEF SetTypeInv
<1>4. \/ drafts # {} /\ setWorld.version = "full"
         /\ setWorld' = [setWorld EXCEPT !.projection.configured = TRUE, !.configured = TRUE]
         /\ set' = apply_live_snapshot(open, q)
      \/ set' = ws /\ setWorld' = [setWorld EXCEPT !.ended = "rejected"]
      \/ set' = ws /\ setWorld' = [setWorld EXCEPT !.ended = "failed"]
    BY DEF WizardCompletion
<1> QED BY <1>2, <1>3, <1>4

LEMMA SetEnterKept ==
    ASSUME WsWhole(set), SetTypeInv, KeyEnter
    PROVE  SetKeyKept \/ (SetTypeInv' /\ (set'.gate /\ ~set.gate => SetGiven))
<1> DEFINE completed == Leave(FormalApply(set, complete(Formal)))
           u == ShowIfOk(set, completed)
           done == [u EXCEPT !.screen = "Landing"]
<1>1. WsTyped(set)
    BY DEF SetTypeInv
<1>2. CASE set.shown.step # WizReview
    BY <1>1, <1>2, SetAfterKept
<1>3. CASE set.shown.step = WizReview
  <2>1. UNCHANGED setVars \/ WizardCompletion(done)
      BY <1>3 DEF KeyEnter
  <2>2. \A r \in complete(Formal) : WizKept(Formal, r)
      BY <1>1, SetFormalTyped DEF complete, WizKept
  <2>3. \A f \in completed : FormalKept(set, f)
      BY <1>1, <2>2, WsAppliedKept, WsWholePair DEF Formal
  <2> HIDE DEF completed
  <2>4. WsKept(set, u)
      BY <1>1, <2>3, WsShowOkKept, WsWholePair
  <2> HIDE DEF u
  <2>5. WsKept(set, done)
      BY <2>4, WsScreenKept, WsKeptAgain DEF WsKept
  <2> HIDE DEF done
  <2>6. UNCHANGED setVars => SetKeyKept
      BY <1>1, WsKeptSame DEF SetKeyKept, setVars
  <2> QED BY <2>1, <2>5, <2>6, SetCompletes
<1> QED BY <1>2, <1>3

LEMMA SetTypeStep ==
    ASSUME WsWhole(set), SetTypeInv, [SetNext]_setVars
    PROVE  SetTypeInv' /\ (set'.gate /\ ~set.gate => SetGiven)
<1>1. WsTyped(set)
    BY DEF SetTypeInv
<1>2. ASSUME SetKeyKept PROVE SetTypeInv' /\ (set'.gate /\ ~set.gate => SetGiven)
  <2>1. SetServed(set', setWorld.projection)
      BY <1>2, SetServedKept DEF SetKeyKept, SetTypeInv
  <2>2. SetTypeInv'
      BY <1>2, <2>1 DEF SetKeyKept, SetTypeInv, WsKept
  <2> QED BY <1>2, <2>2 DEF SetKeyKept, WsKept, WsSteady
<1>3. CASE KeyTab
  <2>1. \A r \in {Formal} : WizKept(Formal, r)
      BY <1>1, SetFormalTyped DEF WizKept
  <2>2. SetKeyKept
      BY <1>1, <1>3, <2>1, SetShowsKept DEF KeyTab, SetKeyKept
  <2> QED BY <1>2, <2>2
<1>4. CASE KeyBack
  <2>1. SetKeyKept
      BY <1>1, <1>4, WsBackKept DEF KeyBack, SetKeyKept
  <2> QED BY <1>2, <2>1
<1>5. CASE KeyOpenWizard
  <2>1. SetKeyKept
      BY <1>1, <1>5, WsOpenKept DEF KeyOpenWizard, SetKeyKept
  <2> QED BY <1>2, <2>1
<1>6. CASE KeyLanding
  <2>1. SetKeyKept
      BY <1>1, <1>6, WsScreenKept DEF KeyLanding, SetKeyKept
  <2> QED BY <1>2, <2>1
<1>7. CASE Refresh
  <2> DEFINE p == Projected(setWorld, setWorld.generation)
  <2>1. p \in SetProjection /\ (setWorld.version = "full" => p.agents /\ p.providers # WizNone)
      BY SetProjectedTyped DEF SetTypeInv, SetWorldType
  <2>2. setWorld' = [setWorld EXCEPT !.projection = p] /\ set' = apply_live_snapshot(set, p)
      BY <1>7 DEF Refresh
  <2> HIDE DEF p
  <2>3. setWorld' \in SetWorldType /\ setWorld'.projection = p /\ setWorld'.version = setWorld.version
      BY <2>1, <2>2 DEF SetTypeInv, SetWorldType
  <2>4. WsPlain(set, set') /\ SetServed(set', p)
      BY <1>1, <2>1, <2>2, WsSnapshotTyped
  <2>5. SetKnown(setWorld')
      BY <2>1, <2>3 DEF SetKnown
  <2> QED BY <2>3, <2>4, <2>5 DEF SetTypeInv, WsPlain
<1>8. CASE RefreshFails \/ RunnerRefreshes
  <2>1. set' = set /\ \E e \in {"no", "failed"}, g \in SetGenerations :
            setWorld' = [setWorld EXCEPT !.ended = e] \/ setWorld' = [setWorld EXCEPT !.generation = g]
      BY <1>8 DEF RefreshFails, RunnerRefreshes, SetTypeInv, SetWorldType
  <2>2. /\ setWorld' \in SetWorldType /\ setWorld'.projection = setWorld.projection
        /\ setWorld'.version = setWorld.version
      BY <2>1 DEF SetTypeInv, SetWorldType
  <2>3. SetKnown(setWorld')
      BY <2>2 DEF SetKnown, SetTypeInv
  <2> QED BY <2>1, <2>2, <2>3 DEF SetTypeInv
<1>9. CASE UNCHANGED setVars
    BY <1>9 DEF setVars, SetTypeInv
<1>10. CASE KeyAuth \/ KeyMove \/ KeyToggle \/ KeyCancel \/ KeyChar \/ KeyBackspace \/ PreparePreflight
  <2>1. SetKeyKept
      BY <1>1, <1>10, SetAuthKept, SetMoveKept, SetToggleKept, SetCancelKept, SetCharKept, SetPrepareKept
  <2> QED BY <1>2, <2>1
<1>11. CASE KeyEnter
    BY <1>2, <1>11, SetEnterKept
<1> QED BY <1>3, <1>4, <1>5, <1>6, <1>7, <1>8, <1>9, <1>10, <1>11 DEF SetNext

LEMMA SetTypesHold == SetInv /\ SetTypeInv => SetTypeOK
<1> SUFFICES ASSUME SetTypeInv PROVE SetTypeOK
    OBVIOUS
<1>1. setWorld.projection \in SetProjection /\ setWorld.ended \in {"no", "rejected", "failed"}
    BY DEF SetTypeInv, SetWorldType
<1> QED BY <1>1 DEF SetTypeOK, SetTypeInv, WsTyped, FormalTyped, WizTyped

(* Types of the workspace, of both wizards, the review and the projection.   *)
THEOREM SetupTypes == SetSpec => []SetTypeOK
<1>1. SetInit => SetInv /\ SetTypeInv
    BY SetInvInit, SetTypeInit
<1>2. SetInv /\ SetTypeInv /\ [SetNext]_setVars => SetInv' /\ SetTypeInv'
    BY SetInvNext, SetTypeStep DEF SetInv
<1> QED BY <1>1, <1>2, SetTypesHold, PTL DEF SetSpec

(* The runner is given the draft that is shown, and only as a tuple of the   *)
(* catalogs the frontend last saw (provider_setup.rs, from_wizard_values).   *)
THEOREM AppliedIsSupported == SetSpec => SetAppliedSupported
<1>1. SetInit => SetInv /\ SetTypeInv
    BY SetInvInit, SetTypeInit
<1>2. SetInv /\ SetTypeInv /\ [SetNext]_setVars => SetInv' /\ SetTypeInv'
    BY SetInvNext, SetTypeStep DEF SetInv
<1>3. SetInv /\ SetTypeInv /\ [SetNext]_setVars =>
         [set'.gate /\ ~set.gate =>
            \E s \in wizard_configuration_selection(set'.shown.values) :
               into_selection(s, WizLive[setWorld.projection.providers])]_setVars
    BY SetTypeStep DEF SetInv, SetGiven
<1> QED BY <1>1, <1>2, <1>3, PTL DEF SetSpec, SetAppliedSupported

-----------------------------------------------------------------------------
(* The picker.  Rows, marks and both selections are of one catalog, what is  *)
(* selected is available, and the mark of all is on a selection of all.      *)

PickFields == {"screen", "search", "focused", "cursor", "rows", "marked", "nested", "flat",
               "revision", "report", "pair", "live"}
PickChosenWell(n) ==
    /\ n.selected \subseteq PickIds(n.catalog) /\ n.selected \subseteq n.catalog.live
    /\ n.all => n.selected = PickIds(n.catalog) \cap n.catalog.live
PickNested(n, search) ==
    /\ \A k \in {"catalog", "selected", "all", "query"} : k \in DOMAIN n
    /\ PickChosenWell(n)
    /\ search = <<>> => n.query = <<>>
(* The nested selection, if there is one, is of the catalog served last that *)
(* selections can be built from.                                             *)
PickFresh(p) ==
    (p.live.catalog # PickNone /\ Measurement_new(p.live.catalog) /\ p.nested # PickNone) =>
        p.nested.catalog = p.live.catalog
(* Before the rows are brought up to date ... *)
PickReady(p) ==
    /\ \A k \in PickFields : k \in DOMAIN p
    /\ p.nested # PickNone =>
          /\ PickNested(p.nested, p.search)
          /\ p.flat = PickNone => p.rows = p.nested.catalog.measures
          /\ p.flat # PickNone =>
                /\ \A k \in {"catalog", "selected", "query"} : k \in DOMAIN p.flat
                /\ p.flat.catalog = p.nested.catalog
    /\ p.pair \subseteq PickReported(p.live)
(* ... and after. *)
PickWhole(p) ==
    /\ PickReady(p)
    /\ p.nested # PickNone => p.rows = p.nested.catalog.measures /\ p.marked = p.nested.selected

LEMMA PickClamp ==
    ASSUME NEW p, PickWhole(p), NEW k
    PROVE  PickWhole([p EXCEPT !.cursor = k])
<1> DEFINE q == [p EXCEPT !.cursor = k]
<1>1. /\ \A x \in PickFields : x \in DOMAIN q
      /\ q.rows = p.rows /\ q.marked = p.marked /\ q.nested = p.nested /\ q.flat = p.flat
      /\ q.search = p.search /\ q.pair = p.pair /\ q.live = p.live
    BY DEF PickWhole, PickReady, PickFields
<1> HIDE DEF q
<1>2. PickWhole(q)
    BY <1>1 DEF PickWhole, PickReady
<1> QED BY <1>2 DEF q

(* Bringing the rows up to date changes nothing but what is shown. *)
LEMMA PickSync ==
    ASSUME NEW p, PickReady(p)
    PROVE  LET q == sync_measure_projection(p)
           IN  PickWhole(q) /\ q.nested = p.nested /\ q.flat = p.flat /\ q.live = p.live
<1> DEFINE f == IF p.flat = PickNone THEN p
                ELSE [p EXCEPT !.rows = p.flat.catalog.measures, !.marked = p.flat.selected]
           ids == {f.rows[i] : i \in 1..Len(f.rows)}
           g == IF p.nested = PickNone THEN f ELSE [f EXCEPT !.marked = ids \cap p.nested.selected]
<1>1. /\ \A x \in PickFields : x \in DOMAIN f
      /\ f.nested = p.nested /\ f.flat = p.flat /\ f.search = p.search /\ f.pair = p.pair /\ f.live = p.live
      /\ p.nested # PickNone => f.rows = p.nested.catalog.measures
    BY DEF PickReady, PickFields
<1> HIDE DEF f
<1>2. p.nested # PickNone => ids = PickIds(p.nested.catalog)
    BY <1>1 DEF PickIds
<1> HIDE DEF ids
<1>3. /\ \A x \in PickFields : x \in DOMAIN g
      /\ g.nested = p.nested /\ g.flat = p.flat /\ g.search = p.search /\ g.pair = p.pair /\ g.live = p.live
      /\ g.rows = f.rows
      /\ p.nested # PickNone => g.marked = ids \cap p.nested.selected
    BY <1>1 DEF PickFields
<1> HIDE DEF g
<1>4. PickWhole(g)
  <2>1. PickReady(g)
      BY <1>1, <1>3 DEF PickReady
  <2>2. p.nested # PickNone => ids \cap p.nested.selected = p.nested.selected
      BY <1>2 DEF PickReady, PickNested, PickChosenWell
  <2> QED BY <1>1, <1>3, <2>1, <2>2 DEF PickWhole
<1>5. \E k : sync_measure_projection(p) = [g EXCEPT !.cursor = k]
    BY DEF sync_measure_projection, clamp_measure_cursor, g, f, ids
<1>6. PICK k : sync_measure_projection(p) = [g EXCEPT !.cursor = k]
    BY <1>5
<1> DEFINE q == [g EXCEPT !.cursor = k]
<1>7. PickWhole(q)
    BY <1>4, PickClamp
<1>8. q.nested = p.nested /\ q.flat = p.flat /\ q.live = p.live
    BY <1>3
<1> QED BY <1>6, <1>7, <1>8

(* Another choice in the nested selection; the flat one has its own. *)
LEMMA PickChoice ==
    ASSUME NEW p, PickWhole(p), NEW n, PickNested(n, p.search),
           p.nested # PickNone, n.catalog = p.nested.catalog
    PROVE  LET q == sync_measure_projection([p EXCEPT !.nested = n])
           IN  PickWhole(q) /\ q.nested = n /\ q.live = p.live
<1> DEFINE u == [p EXCEPT !.nested = n]
<1>1. /\ \A x \in PickFields : x \in DOMAIN u
      /\ u.rows = p.rows /\ u.nested = n /\ u.flat = p.flat
      /\ u.search = p.search /\ u.pair = p.pair /\ u.live = p.live
    BY DEF PickWhole, PickReady, PickFields
<1> HIDE DEF u
<1>2. PickReady(u)
    BY <1>1 DEF PickWhole, PickReady
<1>3. LET q == sync_measure_projection(u) IN PickWhole(q) /\ q.nested = n /\ q.live = p.live
    BY <1>1, <1>2, PickSync
<1> QED BY <1>3 DEF u

(* A choice where there is no nested selection. *)
LEMMA PickFlatChoice ==
    ASSUME NEW p, PickWhole(p), p.nested = PickNone, NEW ids, NEW select
    PROVE  LET q == sync_measure_projection(FlatChoose(p, ids, select))
           IN  PickWhole(q) /\ q.nested = PickNone /\ q.live = p.live
<1> DEFINE sel == IF select THEN p.flat.selected \cup ids ELSE p.flat.selected \ ids
           f == [p.flat EXCEPT !.selected = sel]
           u == [p EXCEPT !.flat = f]
<1>1. FlatChoose(p, ids, select) = u
    BY DEF FlatChoose, PickWhole, PickReady, PickFields
<1> HIDE DEF f
<1>2. /\ \A x \in PickFields : x \in DOMAIN u
      /\ u.nested = PickNone /\ u.pair = p.pair /\ u.live = p.live
    BY DEF PickWhole, PickReady, PickFields
<1> HIDE DEF u
<1>3. PickReady(u)
    BY <1>2 DEF PickWhole, PickReady
<1> QED BY <1>1, <1>2, <1>3, PickSync

(* What the nested selection's search shows is a visible row. *)
LEMMA PickSeen ==
    ASSUME NEW p, PickWhole(p), p.nested # PickNone
    PROVE  VisibleSet(p) = visible_measure_ids(p.nested)
<1> DEFINE V == visible_measure_ids(p.nested)
<1>1. visible_indices(p) = {i \in 1..Len(p.rows) : p.rows[i] \in V}
    BY DEF visible_indices
<1>2. V \subseteq PickIds(p.nested.catalog)
    BY DEF visible_measure_ids, PickMatched
<1>3. PickIds(p.nested.catalog) = {p.rows[i] : i \in 1..Len(p.rows)}
    BY DEF PickIds, PickWhole
<1> HIDE DEF V
<1> QED BY <1>1, <1>2, <1>3 DEF VisibleSet, V

LEMMA PickFocusSeen ==
    ASSUME NEW p PROVE Focused(p) \subseteq VisibleSet(p)
BY DEF Focused, VisibleSet

(* The keys.  Each leaves the picker whole and the runner's snapshot alone,  *)
(* and changes the choice of visible rows only.                              *)
PickKept(p, q) ==
    /\ PickWhole(q) /\ q.live = p.live
    /\ q.nested # PickNone => p.nested # PickNone /\ q.nested.catalog = p.nested.catalog
    /\ (p.nested # PickNone /\ q.nested # PickNone) =>
          \A m \in PickIds(p.nested.catalog) :
              (m \in p.nested.selected) # (m \in q.nested.selected) => m \in VisibleSet(p)

(* A choice of available measures that differs from the one before in the    *)
(* given ones; and how Choose makes it.                                      *)
PickBetween(n, sel, ids) ==
    /\ sel \subseteq PickIds(n.catalog) /\ sel \subseteq n.catalog.live
    /\ \A m : (m \in n.selected) # (m \in sel) => m \in ids

LEMMA PickChoiceKept ==
    ASSUME NEW p, PickWhole(p), p.nested # PickNone, NEW ids, NEW sel, PickBetween(p.nested, sel, ids)
    PROVE  LET q == sync_measure_projection([p EXCEPT !.nested = [p.nested EXCEPT !.selected = sel, !.all = FALSE]])
           IN  /\ PickWhole(q) /\ q.live = p.live /\ q.nested.catalog = p.nested.catalog
               /\ \A m : (m \in p.nested.selected) # (m \in q.nested.selected) => m \in ids
               /\ ids \subseteq VisibleSet(p) => PickKept(p, q)
<1> DEFINE n == [p.nested EXCEPT !.selected = sel, !.all = FALSE]
           q == sync_measure_projection([p EXCEPT !.nested = n])
<1>1. PickNested(p.nested, p.search)
    BY DEF PickWhole, PickReady
<1>2. /\ \A k \in {"catalog", "selected", "all", "query"} : k \in DOMAIN n
      /\ n.selected = sel /\ n.all = FALSE /\ n.catalog = p.nested.catalog /\ n.query = p.nested.query
    BY <1>1 DEF PickNested
<1> HIDE DEF n
<1>3. PickNested(n, p.search)
    BY <1>1, <1>2 DEF PickNested, PickChosenWell, PickBetween
<1>4. PickWhole(q) /\ q.nested = n /\ q.live = p.live
    BY <1>2, <1>3, PickChoice
<1> HIDE DEF q
<1>5. \A m : (m \in p.nested.selected) # (m \in q.nested.selected) => m \in ids
    BY <1>2, <1>4 DEF PickBetween
<1>6. ids \subseteq VisibleSet(p) => PickKept(p, q)
    BY <1>2, <1>4, <1>5 DEF PickKept
<1> QED BY <1>2, <1>4, <1>5, <1>6 DEF q, n

(* A picker that is as it was, but for its cursor, focus, screen or report. *)
LEMMA PickSame ==
    ASSUME NEW p, PickWhole(p), NEW q, \A x \in PickFields : x \in DOMAIN q,
           q.rows = p.rows, q.marked = p.marked, q.nested = p.nested, q.flat = p.flat,
           q.search = p.search, q.live = p.live, q.pair \subseteq PickReported(p.live)
    PROVE  PickKept(p, q)
<1>1. PickWhole(q)
    BY DEF PickWhole, PickReady
<1> QED BY <1>1 DEF PickKept

LEMMA PickUnchanged == ASSUME NEW p, PickWhole(p) PROVE PickKept(p, sync_measure_projection(p))
<1> DEFINE q == sync_measure_projection(p)
<1>1. PickReady(p)
    BY DEF PickWhole
<1>2. PickWhole(q) /\ q.nested = p.nested /\ q.live = p.live
    BY <1>1, PickSync
<1> HIDE DEF q
<1>3. PickKept(p, q)
    BY <1>2 DEF PickKept
<1> QED BY <1>3 DEF q

LEMMA PickFlatKept ==
    ASSUME NEW p, PickWhole(p), p.nested = PickNone, NEW ids, NEW select
    PROVE  PickKept(p, sync_measure_projection(FlatChoose(p, ids, select)))
BY PickFlatChoice DEF PickKept

LEMMA PickMeasureKept ==
    ASSUME NEW p, PickWhole(p), NEW q \in toggle_current_measure(p) PROVE PickKept(p, q)
<1>1. PICK m \in Focused(p) : q = sync_measure_projection(
          IF p.nested # PickNone
          THEN [p EXCEPT !.nested = set_measure_selected(@, m, m \notin p.nested.selected)]
          ELSE FlatChoose(p, {m}, m \notin p.flat.selected))
    BY DEF toggle_current_measure
<1>2. CASE p.nested = PickNone
    BY <1>1, <1>2, PickFlatKept
<1>3. CASE p.nested # PickNone
  <2> DEFINE select == m \notin p.nested.selected
             n == set_measure_selected(p.nested, m, select)
  <2>1. q = sync_measure_projection([p EXCEPT !.nested = n])
      BY <1>1, <1>3
  <2>2. CASE n = p.nested
    <3>1. PickNested(p.nested, p.search)
        BY <1>3 DEF PickWhole, PickReady
    <3>2. PickWhole(q) /\ q.nested = p.nested /\ q.live = p.live
        BY <1>3, <2>1, <2>2, <3>1, PickChoice
    <3> QED BY <3>2 DEF PickKept
  <2>3. CASE m \in PickIds(p.nested.catalog) /\ (select => m \in p.nested.catalog.live) /\ n = Choose(p.nested, {m}, select)
    <3>1. {m} \subseteq VisibleSet(p)
        BY PickFocusSeen
    <3> DEFINE sel == IF select THEN p.nested.selected \cup {m} ELSE p.nested.selected \ {m}
    <3>2. n = [p.nested EXCEPT !.selected = sel, !.all = FALSE]
        BY <2>3 DEF Choose
    <3>3. PickBetween(p.nested, sel, {m})
        BY <1>3, <2>3 DEF PickBetween, PickWhole, PickReady, PickNested, PickChosenWell
    <3> DEFINE ids == {m}
    <3> HIDE DEF select, n, sel, ids
    <3>4. ids \subseteq VisibleSet(p) /\ PickBetween(p.nested, sel, ids)
        BY <3>1, <3>3 DEF ids
    <3>5. q = sync_measure_projection([p EXCEPT !.nested = [p.nested EXCEPT !.selected = sel, !.all = FALSE]])
        BY <2>1, <3>2
    <3> QED BY <1>3, <3>4, <3>5, PickChoiceKept
  <2> QED BY <2>2, <2>3 DEF set_measure_selected
<1> QED BY <1>2, <1>3

LEMMA PickGroupKept ==
    ASSUME NEW p, PickWhole(p), NEW q \in toggle_visible_group(p) PROVE PickKept(p, q)
<1>1. PICK m \in Focused(p) :
        LET g == RowCatalog(p).of[m]
            members == {v \in PickMatched(p.flat.query, PickIds(p.flat.catalog)) : p.flat.catalog.of[v] = g}
        IN  q = sync_measure_projection(
                   IF p.nested # PickNone
                   THEN [p EXCEPT !.nested = set_group_selected(@, g, ~AllSelected(p.nested, g))]
                   ELSE FlatChoose(p, members, members # {} /\ ~(members \subseteq p.flat.selected)))
    BY DEF toggle_visible_group
<1>2. CASE p.nested = PickNone
    BY <1>1, <1>2, PickFlatKept
<1>3. CASE p.nested # PickNone
  <2> DEFINE g == RowCatalog(p).of[m]
             ids == GroupMembers(p.nested, g)
             select == ~AllSelected(p.nested, g)
  <2>1. q = sync_measure_projection([p EXCEPT !.nested = Choose(p.nested, ids, select)])
      BY <1>1, <1>3 DEF set_group_selected
  <2>2. ids \subseteq visible_measure_ids(p.nested) /\ ids \subseteq p.nested.catalog.live
      BY DEF GroupMembers
  <2>3. visible_measure_ids(p.nested) \subseteq PickIds(p.nested.catalog)
      BY DEF visible_measure_ids, PickMatched
  <2>4. ids \subseteq VisibleSet(p)
      BY <1>3, <2>2, PickSeen
  <2> DEFINE sel == IF select THEN p.nested.selected \cup ids ELSE p.nested.selected \ ids
  <2>5. q = sync_measure_projection([p EXCEPT !.nested = [p.nested EXCEPT !.selected = sel, !.all = FALSE]])
      BY <2>1 DEF Choose
  <2> HIDE DEF ids, select
  <2>6. PickBetween(p.nested, sel, ids)
      BY <1>3, <2>2, <2>3 DEF PickBetween, PickWhole, PickReady, PickNested, PickChosenWell
  <2> HIDE DEF sel
  <2> QED BY <1>3, <2>4, <2>5, <2>6, PickChoiceKept
<1> QED BY <1>2, <1>3

(* All: without a search every row is visible. *)
LEMMA PickAllKept ==
    ASSUME NEW p, PickWhole(p) PROVE PickKept(p, toggle_all_measures(p))
<1> DEFINE q == toggle_all_measures(p)
           select == ~(VisibleSet(p) \subseteq p.marked)
           changed == {m \in VisibleSet(p) : select => m \in p.nested.catalog.live}
<1>1. CASE p.nested = PickNone
    BY <1>1, PickFlatKept DEF toggle_all_measures
<1>2. CASE p.nested # PickNone /\ p.search = <<>>
  <2> DEFINE c == p.nested.catalog
             sel == IF select THEN PickIds(c) \cap c.live ELSE {}
             n == [p.nested EXCEPT !.all = select, !.selected = sel]
  <2>1. q = sync_measure_projection([p EXCEPT !.nested = n])
      BY <1>2 DEF toggle_all_measures, set_explicit_all
  <2>2. PickNested(p.nested, p.search)
      BY <1>2 DEF PickWhole, PickReady
  <2>3. /\ \A k \in {"catalog", "selected", "all", "query"} : k \in DOMAIN n
        /\ n.selected = sel /\ n.all = select /\ n.catalog = c /\ n.query = p.nested.query
      BY <2>2 DEF PickNested
  <2>4. sel \subseteq PickIds(c) /\ sel \subseteq c.live /\ (select => sel = PickIds(c) \cap c.live)
      OBVIOUS
  <2> HIDE DEF n, sel, select
  <2>5. PickNested(n, p.search)
      BY <2>2, <2>3, <2>4 DEF PickNested, PickChosenWell
  <2>6. PickWhole(q) /\ q.live = p.live /\ q.nested.catalog = p.nested.catalog
      BY <1>2, <2>1, <2>3, <2>5, PickChoice
  <2>7. VisibleSet(p) = PickIds(p.nested.catalog)
      BY <1>2, <2>2, PickSeen DEF visible_measure_ids, PickMatched, PickNested
  <2> QED BY <1>2, <2>6, <2>7 DEF PickKept
<1>3. CASE p.nested # PickNone /\ p.search # <<>>
  <2>1. CASE changed = {}
      BY <1>3, <2>1, PickUnchanged DEF toggle_all_measures
  <2>2. CASE changed # {}
    <3>1. q = sync_measure_projection([p EXCEPT !.nested = Choose(p.nested, changed, select)])
        BY <1>3, <2>2 DEF toggle_all_measures
    <3>2. changed \subseteq VisibleSet(p) /\ (select => changed \subseteq p.nested.catalog.live)
        OBVIOUS
    <3>3. VisibleSet(p) \subseteq PickIds(p.nested.catalog)
        BY <1>3, PickSeen DEF visible_measure_ids, PickMatched
    <3> DEFINE sel == IF select THEN p.nested.selected \cup changed ELSE p.nested.selected \ changed
    <3>4. q = sync_measure_projection([p EXCEPT !.nested = [p.nested EXCEPT !.selected = sel, !.all = FALSE]])
        BY <3>1 DEF Choose
    <3> HIDE DEF changed, select
    <3>5. PickBetween(p.nested, sel, changed)
        BY <1>3, <3>2, <3>3 DEF PickBetween, PickWhole, PickReady, PickNested, PickChosenWell
    <3> HIDE DEF sel, q
    <3>6. PickKept(p, q)
        BY <1>3, <3>2, <3>4, <3>5, PickChoiceKept
    <3> QED BY <3>6 DEF q
  <2> QED BY <2>1, <2>2
<1> QED BY <1>1, <1>2, <1>3

(* The benchmark key changes measures of the focused row's benchmark. *)
LEMMA PickBenchmarkKept ==
    ASSUME NEW p, PickWhole(p), NEW q \in toggle_current_benchmark(p)
    PROVE  /\ p.nested # PickNone /\ PickWhole(q) /\ q.live = p.live
           /\ q.nested.catalog = p.nested.catalog
           /\ \A m \in PickIds(p.nested.catalog) :
                 (m \in p.nested.selected) # (m \in q.nested.selected) =>
                    \E f \in Focused(p) : p.nested.catalog.of[f] = p.nested.catalog.of[m]
<1>1. p.nested # PickNone
    BY DEF toggle_current_benchmark
<1>2. PICK f \in Focused(p) : q = sync_measure_projection(
          [p EXCEPT !.nested = set_benchmark_selected(@, p.nested.catalog.of[f],
                                                      ~AllSelected(p.nested, p.nested.catalog.of[f]))])
    BY <1>1 DEF toggle_current_benchmark
<1> DEFINE b == p.nested.catalog.of[f]
           ids == BenchmarkMembers(p.nested, b)
           select == ~AllSelected(p.nested, b)
           n == set_benchmark_selected(p.nested, b, select)
           sel == IF select THEN p.nested.selected \cup ids ELSE p.nested.selected \ ids
<1>3. q = sync_measure_projection([p EXCEPT !.nested = n])
    BY <1>2
<1>4. CASE n = p.nested
  <2>1. PickNested(p.nested, p.search)
      BY <1>1 DEF PickWhole, PickReady
  <2>2. PickWhole(q) /\ q.nested = p.nested /\ q.live = p.live
      BY <1>1, <1>3, <1>4, <2>1, PickChoice
  <2> QED BY <1>1, <2>2
<1>5. CASE (select => ids \subseteq p.nested.catalog.live) /\ n = Choose(p.nested, ids, select)
  <2>1. q = sync_measure_projection([p EXCEPT !.nested = [p.nested EXCEPT !.selected = sel, !.all = FALSE]])
      BY <1>3, <1>5 DEF Choose
  <2>2. ids = {m \in PickIds(p.nested.catalog) : p.nested.catalog.of[m] = b}
      BY DEF BenchmarkMembers
  <2> HIDE DEF ids, select, b
  <2>3. PickBetween(p.nested, sel, ids)
      BY <1>1, <1>5, <2>2 DEF PickBetween, PickWhole, PickReady, PickNested, PickChosenWell
  <2> HIDE DEF sel, n
  <2>4. /\ PickWhole(q) /\ q.live = p.live /\ q.nested.catalog = p.nested.catalog
        /\ \A m : (m \in p.nested.selected) # (m \in q.nested.selected) => m \in ids
      BY <1>1, <2>1, <2>3, PickChoiceKept
  <2> QED BY <1>1, <2>2, <2>4 DEF b
<1> QED BY <1>4, <1>5 DEF set_benchmark_selected

(* Typing in the search leaves the choice alone. *)
LEMMA PickSearchKept ==
    ASSUME NEW p, PickWhole(p), NEW s PROVE PickKept(p, SetSearch(p, s))
<1> DEFINE fl == IF p.flat = PickNone THEN p.flat ELSE [p.flat EXCEPT !.query = s]
           ne == IF p.nested = PickNone THEN p.nested ELSE [p.nested EXCEPT !.query = s]
           u == [p EXCEPT !.search = s, !.flat = fl, !.nested = ne]
           v == sync_measure_projection(u)
           q == [v EXCEPT !.cursor = 1]
<1>1. SetSearch(p, s) = q
    BY DEF SetSearch
<1>2. p.nested # PickNone => /\ \A k \in {"catalog", "selected", "all", "query"} : k \in DOMAIN ne
                             /\ ne.catalog = p.nested.catalog /\ ne.selected = p.nested.selected
                             /\ ne.all = p.nested.all /\ ne.query = s
    BY DEF PickWhole, PickReady, PickNested
<1>3. p.nested = PickNone => ne = PickNone
    OBVIOUS
<1>4. p.flat = PickNone => fl = PickNone
    OBVIOUS
<1>5. (p.nested # PickNone /\ p.flat # PickNone) =>
         (\A k \in {"catalog", "selected", "query"} : k \in DOMAIN fl) /\ fl.catalog = p.flat.catalog
    BY DEF PickWhole, PickReady
<1> HIDE DEF fl, ne
<1>6. /\ \A x \in PickFields : x \in DOMAIN u
      /\ u.rows = p.rows /\ u.nested = ne /\ u.flat = fl /\ u.search = s /\ u.pair = p.pair /\ u.live = p.live
    BY DEF PickWhole, PickReady, PickFields
<1> HIDE DEF u
<1>7. p.nested # PickNone => PickNested(ne, s)
    BY <1>2 DEF PickNested, PickChosenWell, PickWhole, PickReady
<1>8. PickReady(u)
  <2>1. CASE p.nested = PickNone
      BY <1>3, <1>6, <2>1 DEF PickWhole, PickReady
  <2>2. CASE p.nested # PickNone /\ p.flat = PickNone
      BY <1>2, <1>4, <1>6, <1>7, <2>2 DEF PickWhole, PickReady
  <2>3. CASE p.nested # PickNone /\ p.flat # PickNone
      BY <1>2, <1>5, <1>6, <1>7, <2>3 DEF PickWhole, PickReady
  <2> QED BY <2>1, <2>2, <2>3
<1>9. PickWhole(v) /\ v.nested = ne /\ v.live = p.live
    BY <1>6, <1>8, PickSync
<1> HIDE DEF v
<1>10. PickWhole(q) /\ q.nested = ne /\ q.live = p.live
  <2>1. PickWhole(q)
      BY <1>9, PickClamp
  <2>2. q.nested = ne /\ q.live = p.live
      BY <1>9 DEF PickWhole, PickReady, PickFields
  <2> QED BY <2>1, <2>2
<1> HIDE DEF q
<1>11. PickKept(p, q)
    BY <1>2, <1>3, <1>10 DEF PickKept
<1> QED BY <1>1, <1>11

(* A snapshot rebuilds both selections of the catalog it brings, or neither. *)
PickServed(s) ==
    /\ \A k \in {"revision", "catalog", "runs"} : k \in DOMAIN s
    /\ s.catalog = PickNone \/ s.catalog \in PickCatalogs
PickTaken(s) == s.catalog # PickNone /\ Measurement_new(s.catalog)

LEMMA PickFlatBuilt ==
    ASSUME NEW c \in PickCatalogs, NEW previous, Measurement_new(c)
    PROVE  LET f == selection_from_catalog(c, previous)
           IN  f # PickNone /\ f.catalog = c /\ \A k \in {"catalog", "selected", "query"} : k \in DOMAIN f
<1> DEFINE ids == IF previous = PickNone THEN {} ELSE previous.selected \cap PickIds(c)
           f == [catalog |-> c, query |-> <<>>, selected |-> ids]
<1>1. selection_from_catalog(c, previous) = f
    BY DEF selection_from_catalog
<1>2. ids \in SUBSET PickEveryId
    BY DEF PickEveryId, PickAny
<1> HIDE DEF ids
<1>3. f \in PickFlatType
    BY <1>2 DEF PickFlatType, PickQueries
<1>4. f # PickNone
    BY <1>3, PickAssumption
<1> QED BY <1>1, <1>4

LEMMA PickNestedBuilt ==
    ASSUME NEW c, NEW previous, NEW search,
           previous # PickNone => PickChosenWell(previous),
           nested_selection_from_catalog(c, previous) # PickNone
    PROVE  LET n == nested_selection_from_catalog(c, previous)
           IN  /\ PickNested(n, search) /\ n.catalog = c
               /\ previous # PickNone => n.selected = previous.selected \cap PickIds(c) \cap c.live
<1> DEFINE n == nested_selection_from_catalog(c, previous)
           sel == IF previous = PickNone THEN {} ELSE selected_measure_ids(previous) \cap PickIds(c) \cap c.live
           b == [catalog |-> c, selected |-> {}, all |-> FALSE, query |-> <<>>]
<1>1. n = [b EXCEPT !.selected = sel]
    BY DEF nested_selection_from_catalog, NewNested
<1>2. sel \subseteq PickIds(c) /\ sel \subseteq c.live
    OBVIOUS
<1>3. previous # PickNone => sel = previous.selected \cap PickIds(c) \cap c.live
    BY DEF PickChosenWell, selected_measure_ids
<1> HIDE DEF sel, n
<1>4. /\ \A k \in {"catalog", "selected", "all", "query"} : k \in DOMAIN n
      /\ n.selected = sel /\ n.catalog = c /\ n.all = FALSE /\ n.query = <<>>
    BY <1>1
<1>5. PickNested(n, search)
    BY <1>2, <1>4 DEF PickNested, PickChosenWell
<1> QED BY <1>3, <1>4, <1>5 DEF n

LEMMA PickSnapshotKept ==
    ASSUME NEW p, PickWhole(p), NEW s, PickServed(s)
    PROVE  LET q == PickSnapshot(p, s)
           IN  /\ PickWhole(q) /\ q.live = s
               /\ ~PickTaken(s) => q.nested = p.nested
               /\ (PickTaken(s) /\ q.nested # PickNone) =>
                      /\ q.nested.catalog = s.catalog
                      /\ p.nested # PickNone =>
                            q.nested.selected = p.nested.selected \cap PickIds(s.catalog) \cap s.catalog.live
<1> DEFINE v == SnapshotSelections(p, s)
           kept == v.pair \cap PickReported(s)
           w == [v EXCEPT !.pair = kept, !.live = s, !.report = 1]
           q == PickSnapshot(p, s)
<1>1. CASE ~PickTaken(s)
  <2>1. v = p
      BY <1>1 DEF SnapshotSelections, selection_from_catalog, PickTaken
  <2>2. /\ \A x \in PickFields : x \in DOMAIN w
        /\ w.rows = p.rows /\ w.marked = p.marked /\ w.nested = p.nested /\ w.flat = p.flat
        /\ w.search = p.search /\ w.pair = kept /\ w.live = s
      BY <2>1 DEF PickWhole, PickReady, PickFields
  <2>3. kept \subseteq PickReported(s)
      OBVIOUS
  <2>4. \E k : q = [w EXCEPT !.cursor = k]
      BY DEF PickSnapshot, clamp_measure_cursor
  <2> HIDE DEF w, v, kept
  <2>5. PickWhole(w)
      BY <1>1, <2>2, <2>3 DEF PickWhole, PickReady, PickTaken
  <2>6. PICK k : q = [w EXCEPT !.cursor = k]
      BY <2>4
  <2> HIDE DEF q
  <2>7. PickWhole(q)
      BY <2>5, <2>6, PickClamp
  <2>8. q.live = s /\ q.nested = p.nested
      BY <2>2, <2>6 DEF PickFields
  <2> QED BY <1>1, <2>7, <2>8 DEF q
<1>2. CASE PickTaken(s)
  <2> DEFINE c == s.catalog
             fl == selection_from_catalog(c, p.flat)
             ne == nested_selection_from_catalog(c, p.nested)
             u == [p EXCEPT !.flat = fl, !.nested = ne, !.revision = s.revision]
             t == [u EXCEPT !.pair = kept, !.live = s]
  <2>1. fl # PickNone /\ fl.catalog = c /\ \A k \in {"catalog", "selected", "query"} : k \in DOMAIN fl
      BY <1>2, PickFlatBuilt DEF PickTaken, PickServed
  <2>2. p.nested # PickNone => PickChosenWell(p.nested)
      BY DEF PickWhole, PickReady, PickNested
  <2>3. ne # PickNone => /\ PickNested(ne, p.search) /\ ne.catalog = c
                         /\ p.nested # PickNone => ne.selected = p.nested.selected \cap PickIds(c) \cap c.live
      BY <2>2, PickNestedBuilt
  <2>4. v = sync_measure_projection(u)
      BY <1>2, <2>1 DEF SnapshotSelections, PickTaken
  <2>5. /\ \A x \in PickFields : x \in DOMAIN u
        /\ u.nested = ne /\ u.flat = fl /\ u.search = p.search /\ u.pair = p.pair /\ u.live = p.live
      BY DEF PickWhole, PickReady, PickFields
  <2> HIDE DEF u, fl, ne
  <2>6. PickReady(u)
      BY <2>1, <2>3, <2>5 DEF PickReady, PickWhole
  <2>7. PickWhole(v) /\ v.nested = ne
      BY <2>4, <2>5, <2>6, PickSync
  <2> HIDE DEF v
  <2>8. /\ \A x \in PickFields : x \in DOMAIN w
        /\ w.rows = v.rows /\ w.marked = v.marked /\ w.nested = v.nested /\ w.flat = v.flat
        /\ w.search = v.search /\ w.pair = kept /\ w.live = s
      BY <2>7 DEF PickWhole, PickReady, PickFields
  <2>9. kept \subseteq PickReported(s)
      OBVIOUS
  <2>10. \E k : q = [w EXCEPT !.cursor = k]
      BY DEF PickSnapshot, clamp_measure_cursor, v
  <2> HIDE DEF w, kept
  <2>11. PickWhole(w)
      BY <2>7, <2>8, <2>9 DEF PickWhole, PickReady
  <2>12. PICK k : q = [w EXCEPT !.cursor = k]
      BY <2>10
  <2> HIDE DEF q
  <2>13. PickWhole(q)
      BY <2>11, <2>12, PickClamp
  <2>14. q.live = s /\ q.nested = ne
      BY <2>7, <2>8, <2>12 DEF PickFields
  <2> QED BY <1>2, <2>3, <2>13, <2>14 DEF q
<1> QED BY <1>1, <1>2

-----------------------------------------------------------------------------
(* The machine. *)

PickInv == PickWhole(pick) /\ PickFresh(pick)
PickStep == PickHiddenUntouched /\ PickRefreshKeeps

LEMMA PickStarts == PickInit => PickInv
<1> SUFFICES ASSUME PickInit PROVE PickInv
    OBVIOUS
<1> DEFINE b == [catalog |-> PickDevelopment, selected |-> {}, all |-> FALSE, query |-> <<>>]
           n == [b EXCEPT !.selected = PickChosen]
<1>1. /\ \A k \in PickFields : k \in DOMAIN pick
      /\ pick.nested = n /\ pick.flat = PickNone /\ pick.rows = PickDevelopment.measures
      /\ pick.marked = PickChosen /\ pick.search = <<>> /\ pick.pair = {}
      /\ pick.live = [revision |-> PickNone, catalog |-> PickNone, runs |-> <<>>]
    BY DEF PickInit, NewNested, PickFields
<1>2. /\ \A k \in {"catalog", "selected", "all", "query"} : k \in DOMAIN n
      /\ n.catalog = PickDevelopment /\ n.selected = PickChosen /\ n.all = FALSE /\ n.query = <<>>
    OBVIOUS
<1> HIDE DEF n
<1>3. PickNested(n, <<>>)
    BY <1>2, PickAssumption DEF PickNested, PickChosenWell
<1>4. PickReady(pick)
    BY <1>1, <1>2, <1>3 DEF PickReady
<1> QED BY <1>1, <1>2, <1>4 DEF PickInv, PickWhole, PickFresh

(* A step that keeps what is not shown keeps the invariant. *)
LEMMA PickKeptStep ==
    ASSUME PickInv, PickKept(pick, pick') PROVE PickInv' /\ PickStep
<1>1. PickInv'
    BY DEF PickInv, PickKept, PickFresh
<1>2. PickHiddenUntouched
    BY DEF PickKept, PickHiddenUntouched
<1>3. PickRefreshKeeps
    BY DEF PickKept, PickRefreshKeeps
<1> QED BY <1>1, <1>2, <1>3 DEF PickStep

LEMMA PickRefreshStep == ASSUME PickInv, PickRefresh PROVE PickInv' /\ PickStep
<1>1. PICK r \in 0..PickRevisionMax, c \in PickCatalogs \cup {PickNone}, runs \in PickRuns :
         pick' = PickSnapshot(pick, [revision |-> r, catalog |-> c, runs |-> runs])
    BY DEF PickRefresh
<1> DEFINE s == [revision |-> r, catalog |-> c, runs |-> runs]
<1>2. PickServed(s)
    BY DEF PickServed
<1>3. pick' = PickSnapshot(pick, s)
    BY <1>1
<1> HIDE DEF s
<1>4. /\ PickWhole(pick') /\ pick'.live = s
      /\ ~PickTaken(s) => pick'.nested = pick.nested
      /\ (PickTaken(s) /\ pick'.nested # PickNone) =>
              /\ pick'.nested.catalog = s.catalog
              /\ pick.nested # PickNone =>
                    pick'.nested.selected = pick.nested.selected \cap PickIds(s.catalog) \cap s.catalog.live
    BY <1>2, <1>3, PickSnapshotKept DEF PickInv
<1>5. pick.nested # PickNone => PickChosenWell(pick.nested)
    BY DEF PickInv, PickWhole, PickReady, PickNested
<1>6. PickInv'
    BY <1>4 DEF PickInv, PickFresh, PickTaken
<1>7. PickRefreshKeeps
    BY <1>4, <1>5 DEF PickRefreshKeeps, PickChosenWell
<1>8. PickHiddenUntouched
    BY <1>4, <1>5 DEF PickHiddenUntouched, PickChosenWell, PickInv, PickFresh, PickTaken
<1> QED BY <1>6, <1>7, <1>8 DEF PickStep

LEMMA PickBenchmarkStep == ASSUME PickInv, KeyBenchmark PROVE PickInv' /\ PickStep
<1>1. /\ pick.nested # PickNone /\ PickWhole(pick') /\ pick'.live = pick.live
      /\ pick'.nested.catalog = pick.nested.catalog
      /\ \A m \in PickIds(pick.nested.catalog) :
            (m \in pick.nested.selected) # (m \in pick'.nested.selected) =>
               \E f \in Focused(pick) : pick.nested.catalog.of[f] = pick.nested.catalog.of[m]
    BY PickBenchmarkKept DEF KeyBenchmark, PickInv
<1>2. PickInv'
    BY <1>1 DEF PickInv, PickFresh
<1>3. PickHiddenUntouched
    BY <1>1 DEF PickHiddenUntouched
<1>4. PickRefreshKeeps
    BY <1>1 DEF PickRefreshKeeps
<1> QED BY <1>2, <1>3, <1>4 DEF PickStep

(* The cursor, the screen, the focus and the runs to compare. *)
LEMMA PickSameStep ==
    ASSUME PickInv, \A x \in PickFields : x \in DOMAIN pick',
           pick'.rows = pick.rows, pick'.marked = pick.marked, pick'.nested = pick.nested,
           pick'.flat = pick.flat, pick'.search = pick.search, pick'.live = pick.live,
           pick'.pair \subseteq PickReported(pick.live)
    PROVE  PickInv' /\ PickStep
<1> DEFINE q == pick'
<1>1. PickKept(pick, q)
    BY PickSame DEF PickInv
<1> QED BY <1>1, PickKeptStep

LEMMA PickCursorStep == ASSUME PickInv, KeyUpDown \/ KeyScreen PROVE PickInv' /\ PickStep
<1>1. \E k : \/ pick' = [pick EXCEPT !.cursor = k] \/ pick' = [pick EXCEPT !.report = k]
             \/ pick' = [pick EXCEPT !.screen = k]
    BY DEF KeyUpDown, KeyScreen
<1>2. /\ \A x \in PickFields : x \in DOMAIN pick
      /\ pick.pair \subseteq PickReported(pick.live)
    BY DEF PickInv, PickWhole, PickReady
<1>3. /\ \A x \in PickFields : x \in DOMAIN pick'
      /\ pick'.rows = pick.rows /\ pick'.marked = pick.marked /\ pick'.nested = pick.nested
      /\ pick'.flat = pick.flat /\ pick'.search = pick.search /\ pick'.live = pick.live
      /\ pick'.pair = pick.pair
    BY <1>1, <1>2 DEF PickFields
<1> QED BY <1>2, <1>3, PickSameStep

LEMMA PickCompareStep == ASSUME PickInv, KeyCompare PROVE PickInv' /\ PickStep
<1>1. PICK r \in operator_run_selection(pick).selected :
          pick' = IF r \in pick.pair THEN [pick EXCEPT !.pair = @ \ {r}]
                  ELSE IF Cardinality(pick.pair) < 2 THEN [pick EXCEPT !.pair = @ \cup {r}]
                  ELSE pick
    BY DEF KeyCompare
<1>2. /\ \A x \in PickFields : x \in DOMAIN pick
      /\ pick.pair \subseteq PickReported(pick.live)
    BY DEF PickInv, PickWhole, PickReady
<1>3. r \in PickReported(pick.live)
    BY DEF operator_run_selection, PickReported
<1>4. /\ \A x \in PickFields : x \in DOMAIN pick'
      /\ pick'.rows = pick.rows /\ pick'.marked = pick.marked /\ pick'.nested = pick.nested
      /\ pick'.flat = pick.flat /\ pick'.search = pick.search /\ pick'.live = pick.live
      /\ pick'.pair \subseteq PickReported(pick.live)
  <2>1. CASE r \in pick.pair
      BY <1>1, <1>2, <2>1 DEF PickFields
  <2>2. CASE r \notin pick.pair /\ Cardinality(pick.pair) < 2
      BY <1>1, <1>2, <1>3, <2>2 DEF PickFields
  <2>3. CASE r \notin pick.pair /\ ~(Cardinality(pick.pair) < 2)
      BY <1>1, <1>2, <2>3
  <2> QED BY <2>1, <2>2, <2>3
<1> QED BY <1>4, PickSameStep

LEMMA PickSearchStep == ASSUME PickInv, KeySearch PROVE PickInv' /\ PickStep
<1>1. CASE \E b : pick' = [pick EXCEPT !.focused = b]
  <2>1. /\ \A x \in PickFields : x \in DOMAIN pick
        /\ pick.pair \subseteq PickReported(pick.live)
      BY DEF PickInv, PickWhole, PickReady
  <2>2. /\ \A x \in PickFields : x \in DOMAIN pick'
        /\ pick'.rows = pick.rows /\ pick'.marked = pick.marked /\ pick'.nested = pick.nested
        /\ pick'.flat = pick.flat /\ pick'.search = pick.search /\ pick'.live = pick.live
        /\ pick'.pair = pick.pair
      BY <1>1, <2>1 DEF PickFields
  <2> QED BY <2>1, <2>2, PickSameStep
<1>2. CASE \E s : pick' = SetSearch(pick, s)
  <2>1. PickKept(pick, pick')
      BY <1>2, PickSearchKept DEF PickInv
  <2> QED BY <2>1, PickKeptStep
<1> QED BY <1>1, <1>2 DEF KeySearch

LEMMA PickSteps == PickInv /\ [PickNext]_pick => PickInv' /\ (PickStep \/ UNCHANGED pick)
<1> SUFFICES ASSUME PickInv, [PickNext]_pick PROVE PickInv' /\ (PickStep \/ UNCHANGED pick)
    OBVIOUS
<1>1. CASE UNCHANGED pick
    BY <1>1 DEF PickInv
<1>2. CASE KeyMeasure
  <2>1. PickKept(pick, pick')
      BY <1>2, PickMeasureKept DEF KeyMeasure, PickInv
  <2> QED BY <2>1, PickKeptStep
<1>3. CASE KeyGroup
  <2>1. PickKept(pick, pick')
      BY <1>3, PickGroupKept DEF KeyGroup, PickInv
  <2> QED BY <2>1, PickKeptStep
<1>4. CASE KeyAll
  <2>1. PickKept(pick, pick')
      BY <1>4, PickAllKept DEF KeyAll, PickInv
  <2> QED BY <2>1, PickKeptStep
<1>5. CASE PickRefresh
    BY <1>5, PickRefreshStep
<1>6. CASE KeyBenchmark
    BY <1>6, PickBenchmarkStep
<1>7. CASE KeyUpDown \/ KeyScreen
    BY <1>7, PickCursorStep
<1>8. CASE KeyCompare
    BY <1>8, PickCompareStep
<1>9. CASE KeySearch
    BY <1>9, PickSearchStep
<1> QED BY <1>1, <1>2, <1>3, <1>4, <1>5, <1>6, <1>7, <1>8, <1>9 DEF PickNext

LEMMA PickShown == PickInv => PickCampaignShown
<1> SUFFICES ASSUME PickInv PROVE PickCampaignShown
    OBVIOUS
<1>1. pick.pair \subseteq PickReported(pick.live)
    BY DEF PickInv, PickWhole, PickReady
<1>2. PickComparisonKnown
    BY <1>1 DEF PickComparisonKnown, operator_run_selection
<1> DEFINE h == current_benchmark_campaign_handoff(pick)
<1>3. h # {} => /\ pick.nested # PickNone /\ h = pick.nested.selected \cap PickIds(pick.nested.catalog)
    BY DEF current_benchmark_campaign_handoff, campaign_handoff, selected_measure_ids
<1>4. pick.nested # PickNone => PickChosenWell(pick.nested) /\ pick.marked = pick.nested.selected
    BY DEF PickInv, PickWhole, PickReady, PickNested
<1>5. PickHandoffShown
    BY <1>3, <1>4 DEF PickHandoffShown, PickChosenWell
<1>6. PickAllIsAll
    BY <1>3, <1>4 DEF PickAllIsAll, recording_workload_scope, PickChosenWell
<1> QED BY <1>2, <1>5, <1>6 DEF PickCampaignShown

(* What is handed to a campaign or a comparison is what the screen marks     *)
(* (ui.rs, current_benchmark_campaign_handoff, operator_run_selection).      *)
THEOREM CampaignIsShown == PickSpec => []PickCampaignShown
<1>1. PickSpec => []PickInv
    BY PickStarts, PickSteps, PTL DEF PickSpec
<1> QED BY <1>1, PickShown, PTL

(* No refresh and no key aimed at other rows changes the selection (ui.rs,   *)
(* apply_live_snapshot; selection.rs, measure_matches).                      *)
THEOREM OnlyAskedChanges == PickSpec => PickOnlyAsked
<1>1. PickInv /\ [PickNext]_pick => PickInv' /\ [PickRefreshKeeps /\ PickHiddenUntouched]_pick
    BY PickSteps DEF PickStep
<1> QED BY <1>1, PickStarts, PTL DEF PickSpec, PickOnlyAsked

-----------------------------------------------------------------------------
(* Types of the picker.  Both selections are of catalogs the runner or the   *)
(* default served; the flat one, once there is one, gives the rows.          *)

PickNestedOK(n) == n \in PickNestedType /\ n.selected \subseteq PickIds(n.catalog)
PickFlatOK(f) == f \in PickFlatType /\ f.selected \subseteq PickIds(f.catalog)
PickBase(p) ==
    /\ \A k \in PickFields : k \in DOMAIN p
    /\ p.screen \in {"Measures", "Reports"} /\ p.report \in 1..3
    /\ p.cursor \in Nat /\ p.search \in PickQueries
    /\ IsFiniteSet(p.pair) /\ Cardinality(p.pair) <= 2
    /\ p.nested = PickNone \/ PickNestedOK(p.nested)
    /\ p.flat = PickNone \/ PickFlatOK(p.flat)
    /\ p.nested = PickNone => p.flat # PickNone
    /\ p.flat = PickNone => p.rows = p.nested.catalog.measures
PickRowIds(p) == {p.rows[i] : i \in 1..Len(p.rows)}
PickLaid(p) ==
    /\ p.flat # PickNone => p.rows = p.flat.catalog.measures
    /\ p.marked \subseteq PickRowIds(p)
PickPlaced(p) == visible_indices(p) # {} => p.cursor <= Cardinality(visible_indices(p))
PickTyped(p) == PickBase(p) /\ PickLaid(p) /\ PickPlaced(p)

LEMMA PickVisible ==
    ASSUME NEW p, PickBase(p), PickLaid(p)
    PROVE  LET n == Cardinality(visible_indices(p))
           IN  n \in Nat /\ (n = 0 <=> visible_indices(p) = {})
<1>1. \E c \in PickAny : p.rows = c.measures
  <2>1. CASE p.flat # PickNone
      BY <2>1 DEF PickBase, PickLaid, PickFlatOK, PickFlatType, PickAny
  <2>2. CASE p.flat = PickNone
      BY <2>2 DEF PickBase, PickNestedOK, PickNestedType
  <2> QED BY <2>1, <2>2
<1>2. Len(p.rows) \in Nat
  <2>1. p.rows \in Seq(PickEveryId)
      BY <1>1, PickAssumption
  <2> QED BY <2>1
<1>3. IsFiniteSet(1..Len(p.rows))
    BY <1>2, FS_Interval
<1>4. visible_indices(p) \subseteq 1..Len(p.rows)
    BY DEF visible_indices
<1>5. IsFiniteSet(visible_indices(p))
    BY <1>3, <1>4, FS_Subset
<1> QED BY <1>5, FS_CardinalityType, FS_EmptySet

(* Another cursor. *)
LEMMA PickCursorTyped ==
    ASSUME NEW p, PickBase(p), PickLaid(p), NEW k \in Nat,
           visible_indices(p) # {} => k <= Cardinality(visible_indices(p))
    PROVE  PickTyped([p EXCEPT !.cursor = k])
<1> DEFINE q == [p EXCEPT !.cursor = k]
<1>1. /\ \A x \in PickFields : x \in DOMAIN q
      /\ q.rows = p.rows /\ q.marked = p.marked /\ q.nested = p.nested /\ q.flat = p.flat
      /\ q.search = p.search /\ q.pair = p.pair /\ q.cursor = k /\ q.screen = p.screen /\ q.report = p.report
    BY DEF PickBase, PickFields
<1> HIDE DEF q
<1>2. visible_indices(q) = visible_indices(p)
    BY <1>1 DEF visible_indices
<1>3. PickBase(q)
    BY <1>1 DEF PickBase
<1>4. PickLaid(q)
    BY <1>1 DEF PickLaid, PickRowIds
<1>5. PickPlaced(q)
    BY <1>1, <1>2 DEF PickPlaced
<1> QED BY <1>3, <1>4, <1>5 DEF PickTyped, q

LEMMA PickClampTyped ==
    ASSUME NEW p, PickBase(p), PickLaid(p)
    PROVE  PickTyped(clamp_measure_cursor(p))
<1> DEFINE n == Cardinality(visible_indices(p))
           k == IF n = 0 THEN 1 ELSE IF p.cursor > n THEN n ELSE p.cursor
<1>1. clamp_measure_cursor(p) = [p EXCEPT !.cursor = k]
    BY DEF clamp_measure_cursor
<1>2. n \in Nat /\ (n = 0 <=> visible_indices(p) = {})
    BY PickVisible
<1>3. p.cursor \in Nat
    BY DEF PickBase
<1> HIDE DEF n
<1>4. k \in Nat /\ (visible_indices(p) # {} => k <= n)
    BY <1>2, <1>3
<1> HIDE DEF k
<1> QED BY <1>1, <1>4, PickCursorTyped DEF n

LEMMA PickSyncTyped ==
    ASSUME NEW p, PickBase(p), p.flat = PickNone => p.marked \subseteq PickRowIds(p)
    PROVE  PickTyped(sync_measure_projection(p))
<1> DEFINE f == IF p.flat = PickNone THEN p
                ELSE [p EXCEPT !.rows = p.flat.catalog.measures, !.marked = p.flat.selected]
           ids == {f.rows[i] : i \in 1..Len(f.rows)}
           g == IF p.nested = PickNone THEN f ELSE [f EXCEPT !.marked = ids \cap p.nested.selected]
<1>1. sync_measure_projection(p) = clamp_measure_cursor(g)
    BY DEF sync_measure_projection
<1>2. /\ \A x \in PickFields : x \in DOMAIN f
      /\ f.nested = p.nested /\ f.flat = p.flat /\ f.search = p.search /\ f.pair = p.pair
      /\ f.screen = p.screen /\ f.report = p.report /\ f.cursor = p.cursor
      /\ p.flat = PickNone => f.rows = p.rows /\ f.marked = p.marked
      /\ p.flat # PickNone => f.rows = p.flat.catalog.measures /\ f.marked = p.flat.selected
    BY DEF PickBase, PickFields
<1> HIDE DEF f
<1>3. f.marked \subseteq ids
  <2>1. CASE p.flat = PickNone
      BY <1>2, <2>1 DEF PickRowIds
  <2>2. CASE p.flat # PickNone
    <3>1. p.flat.selected \subseteq PickIds(p.flat.catalog)
        BY <2>2 DEF PickBase, PickFlatOK
    <3> QED BY <1>2, <2>2, <3>1 DEF PickIds
  <2> QED BY <2>1, <2>2
<1> HIDE DEF ids
<1>4. /\ \A x \in PickFields : x \in DOMAIN g
      /\ g.nested = p.nested /\ g.flat = p.flat /\ g.search = p.search /\ g.pair = p.pair
      /\ g.screen = p.screen /\ g.report = p.report /\ g.cursor = p.cursor
      /\ g.rows = f.rows /\ g.marked \subseteq ids
    BY <1>2, <1>3 DEF PickFields
<1> HIDE DEF g
<1>5. PickBase(g)
    BY <1>2, <1>4 DEF PickBase
<1>6. PickLaid(g)
    BY <1>2, <1>4 DEF PickLaid, PickRowIds, ids
<1> QED BY <1>1, <1>5, <1>6, PickClampTyped

(* A choice in the nested selection, and in the flat one. *)
LEMMA PickChoiceTyped ==
    ASSUME NEW p, PickTyped(p), p.nested # PickNone, NEW n, PickNestedOK(n), n.catalog = p.nested.catalog
    PROVE  PickTyped(sync_measure_projection([p EXCEPT !.nested = n]))
<1> DEFINE u == [p EXCEPT !.nested = n]
<1>1. /\ \A x \in PickFields : x \in DOMAIN u
      /\ u.rows = p.rows /\ u.marked = p.marked /\ u.nested = n /\ u.flat = p.flat
      /\ u.search = p.search /\ u.pair = p.pair /\ u.cursor = p.cursor /\ u.screen = p.screen /\ u.report = p.report
    BY DEF PickTyped, PickBase, PickFields
<1> HIDE DEF u
<1>2. n # PickNone
    BY PickAssumption DEF PickNestedOK
<1>3. PickBase(u)
    BY <1>1, <1>2 DEF PickTyped, PickBase
<1>4. u.marked \subseteq PickRowIds(u)
    BY <1>1 DEF PickTyped, PickLaid, PickRowIds
<1> QED BY <1>3, <1>4, PickSyncTyped DEF u

LEMMA PickFlatTyped ==
    ASSUME NEW p, PickTyped(p), p.nested = PickNone, NEW select, NEW ids, ids \subseteq PickRowIds(p)
    PROVE  PickTyped(sync_measure_projection(FlatChoose(p, ids, select)))
<1> DEFINE sel == IF select THEN p.flat.selected \cup ids ELSE p.flat.selected \ ids
           f == [p.flat EXCEPT !.selected = sel]
           u == [p EXCEPT !.flat = f]
<1>1. FlatChoose(p, ids, select) = u
    BY DEF FlatChoose, PickTyped, PickBase, PickFields
<1>2. p.flat # PickNone /\ PickFlatOK(p.flat) /\ p.rows = p.flat.catalog.measures
    BY DEF PickTyped, PickBase, PickLaid
<1>3. PickRowIds(p) = PickIds(p.flat.catalog)
    BY <1>2 DEF PickRowIds, PickIds
<1>4. p.flat \in PickFlatType /\ p.flat.catalog \in PickCatalogs
    BY <1>2 DEF PickFlatOK, PickFlatType
<1>5. sel \subseteq PickIds(p.flat.catalog)
    BY <1>2, <1>3 DEF PickFlatOK
<1>6. sel \in SUBSET PickEveryId
    BY <1>4, <1>5 DEF PickEveryId, PickAny
<1> HIDE DEF sel
<1>7. f \in PickFlatType /\ f.selected = sel /\ f.catalog = p.flat.catalog
    BY <1>4, <1>6 DEF PickFlatType
<1>8. PickFlatOK(f) /\ f # PickNone
    BY <1>5, <1>7, PickAssumption DEF PickFlatOK
<1> HIDE DEF f
<1>9. /\ \A x \in PickFields : x \in DOMAIN u
      /\ u.rows = p.rows /\ u.marked = p.marked /\ u.nested = p.nested /\ u.flat = f
      /\ u.search = p.search /\ u.pair = p.pair /\ u.cursor = p.cursor /\ u.screen = p.screen /\ u.report = p.report
    BY DEF PickTyped, PickBase, PickFields
<1> HIDE DEF u
<1>10. PickBase(u)
    BY <1>8, <1>9 DEF PickTyped, PickBase
<1> QED BY <1>1, <1>8, <1>9, <1>10, PickSyncTyped

(* What a choice makes of a nested selection. *)
LEMMA PickChosenTyped ==
    ASSUME NEW n, PickNestedOK(n), NEW sel, sel \subseteq PickIds(n.catalog), NEW all \in BOOLEAN
    PROVE  LET m == [n EXCEPT !.selected = sel, !.all = all]
           IN  PickNestedOK(m) /\ m.catalog = n.catalog
<1> DEFINE m == [n EXCEPT !.selected = sel, !.all = all]
<1>1. n \in PickNestedType /\ n.catalog \in PickAny
    BY DEF PickNestedOK, PickNestedType
<1>2. sel \in SUBSET PickEveryId
    BY <1>1 DEF PickEveryId
<1>3. m \in PickNestedType /\ m.selected = sel /\ m.catalog = n.catalog
    BY <1>1, <1>2 DEF PickNestedType
<1> QED BY <1>3 DEF PickNestedOK

LEMMA PickChooseTyped ==
    ASSUME NEW p, PickTyped(p), p.nested # PickNone, NEW select, NEW ids, ids \subseteq PickIds(p.nested.catalog)
    PROVE  PickTyped(sync_measure_projection([p EXCEPT !.nested = Choose(p.nested, ids, select)]))
<1> DEFINE sel == IF select THEN p.nested.selected \cup ids ELSE p.nested.selected \ ids
           n == [p.nested EXCEPT !.selected = sel, !.all = FALSE]
<1>1. PickNestedOK(p.nested)
    BY DEF PickTyped, PickBase
<1>2. sel \subseteq PickIds(p.nested.catalog)
    BY <1>1 DEF PickNestedOK
<1>3. Choose(p.nested, ids, select) = n
    BY DEF Choose
<1> HIDE DEF sel
<1>4. PickNestedOK(n) /\ n.catalog = p.nested.catalog
    BY <1>1, <1>2, PickChosenTyped
<1> HIDE DEF n
<1> QED BY <1>3, <1>4, PickChoiceTyped

LEMMA PickIdleTyped ==
    ASSUME NEW p, PickTyped(p) PROVE PickTyped(sync_measure_projection(p))
BY PickSyncTyped DEF PickTyped, PickLaid

(* What the rows show is of them, and of the nested selection's catalog. *)
LEMMA PickSeenTyped ==
    ASSUME NEW p
    PROVE  /\ VisibleSet(p) \subseteq PickRowIds(p) /\ Focused(p) \subseteq VisibleSet(p)
           /\ p.nested # PickNone => VisibleSet(p) \subseteq PickIds(p.nested.catalog)
<1>1. visible_indices(p) \subseteq 1..Len(p.rows)
    BY DEF visible_indices
<1>2. p.nested # PickNone => \A i \in visible_indices(p) : p.rows[i] \in PickIds(p.nested.catalog)
  <2>1. p.nested # PickNone => \A i \in visible_indices(p) : p.rows[i] \in visible_measure_ids(p.nested)
      BY DEF visible_indices
  <2>2. visible_measure_ids(p.nested) \subseteq PickIds(p.nested.catalog)
      BY DEF visible_measure_ids, PickMatched
  <2> QED BY <2>1, <2>2
<1> QED BY <1>1, <1>2 DEF VisibleSet, Focused, PickRowIds

LEMMA PickMeasureTyped ==
    ASSUME NEW p, PickTyped(p), NEW q \in toggle_current_measure(p) PROVE PickTyped(q)
<1>1. PICK m \in Focused(p) :
         q = sync_measure_projection(
                IF p.nested # PickNone
                THEN [p EXCEPT !.nested = set_measure_selected(p.nested, m, m \notin p.nested.selected)]
                ELSE FlatChoose(p, {m}, m \notin p.flat.selected))
    BY DEF toggle_current_measure
<1>2. m \in PickRowIds(p) /\ (p.nested # PickNone => m \in PickIds(p.nested.catalog))
    BY PickSeenTyped
<1>3. CASE p.nested = PickNone
    BY <1>1, <1>2, <1>3, PickFlatTyped
<1>4. CASE p.nested # PickNone /\ set_measure_selected(p.nested, m, m \notin p.nested.selected) = p.nested
  <2>1. PickNestedOK(p.nested)
      BY <1>4 DEF PickTyped, PickBase
  <2> QED BY <1>1, <1>4, <2>1, PickChoiceTyped
<1>5. CASE p.nested # PickNone /\ set_measure_selected(p.nested, m, m \notin p.nested.selected)
                                    = Choose(p.nested, {m}, m \notin p.nested.selected)
    BY <1>1, <1>2, <1>5, PickChooseTyped
<1> QED BY <1>3, <1>4, <1>5 DEF set_measure_selected

LEMMA PickGroupTyped ==
    ASSUME NEW p, PickTyped(p), NEW q \in toggle_visible_group(p) PROVE PickTyped(q)
<1> DEFINE g(m) == RowCatalog(p).of[m]
           members(m) == {v \in PickMatched(p.flat.query, PickIds(p.flat.catalog)) :
                             p.flat.catalog.of[v] = g(m)}
<1>1. PICK m \in Focused(p) :
         q = sync_measure_projection(
                IF p.nested # PickNone
                THEN [p EXCEPT !.nested = set_group_selected(p.nested, g(m), ~AllSelected(p.nested, g(m)))]
                ELSE FlatChoose(p, members(m), members(m) # {} /\ ~(members(m) \subseteq p.flat.selected)))
    BY DEF toggle_visible_group
<1>2. CASE p.nested = PickNone
  <2>1. members(m) \subseteq PickIds(p.flat.catalog)
      BY DEF PickMatched
  <2>2. PickIds(p.flat.catalog) = PickRowIds(p)
      BY <1>2 DEF PickTyped, PickBase, PickLaid, PickRowIds, PickIds
  <2> HIDE DEF members
  <2> QED BY <1>1, <1>2, <2>1, <2>2, PickFlatTyped
<1>3. CASE p.nested # PickNone
  <2>1. GroupMembers(p.nested, g(m)) \subseteq PickIds(p.nested.catalog)
      BY DEF GroupMembers, visible_measure_ids, PickMatched
  <2>2. q = sync_measure_projection([p EXCEPT !.nested = Choose(p.nested, GroupMembers(p.nested, g(m)),
                                                                ~AllSelected(p.nested, g(m)))])
      BY <1>1, <1>3 DEF set_group_selected
  <2> HIDE DEF g, members
  <2> QED BY <1>3, <2>1, <2>2, PickChooseTyped
<1> QED BY <1>2, <1>3

LEMMA PickBenchmarkTyped ==
    ASSUME NEW p, PickTyped(p), NEW q \in toggle_current_benchmark(p) PROVE PickTyped(q)
<1>1. PICK m \in Focused(p) :
         /\ p.nested # PickNone
         /\ q = sync_measure_projection(
                  [p EXCEPT !.nested = set_benchmark_selected(p.nested, p.nested.catalog.of[m],
                                                              ~AllSelected(p.nested, p.nested.catalog.of[m]))])
    BY DEF toggle_current_benchmark
<1> DEFINE b == p.nested.catalog.of[m]
           select == ~AllSelected(p.nested, b)
           ids == BenchmarkMembers(p.nested, b)
<1>2. ids \subseteq PickIds(p.nested.catalog)
    BY DEF BenchmarkMembers
<1>3. \/ set_benchmark_selected(p.nested, b, select) = p.nested
      \/ set_benchmark_selected(p.nested, b, select) = Choose(p.nested, ids, select)
    BY DEF set_benchmark_selected
<1>4. q = sync_measure_projection([p EXCEPT !.nested = set_benchmark_selected(p.nested, b, select)])
    BY <1>1
<1> HIDE DEF b, select, ids
<1>5. PickNestedOK(p.nested)
    BY <1>1 DEF PickTyped, PickBase
<1> QED BY <1>1, <1>2, <1>3, <1>4, <1>5, PickChoiceTyped, PickChooseTyped

LEMMA PickAllTyped ==
    ASSUME NEW p, PickTyped(p) PROVE PickTyped(toggle_all_measures(p))
<1> DEFINE select == ~(VisibleSet(p) \subseteq p.marked)
           changed == {m \in VisibleSet(p) : select => m \in p.nested.catalog.live}
           q == toggle_all_measures(p)
<1>1. CASE p.nested = PickNone
  <2>1. q = sync_measure_projection(FlatChoose(p, VisibleSet(p), select))
      BY <1>1 DEF toggle_all_measures
  <2> HIDE DEF select, q
  <2> QED BY <1>1, <2>1, PickSeenTyped, PickFlatTyped DEF q
<1>2. CASE p.nested # PickNone /\ p.search = <<>>
  <2> DEFINE sel == IF select THEN PickIds(p.nested.catalog) \cap p.nested.catalog.live ELSE {}
             n == [p.nested EXCEPT !.selected = sel, !.all = select]
  <2>1. q = sync_measure_projection([p EXCEPT !.nested = set_explicit_all(p.nested, select)])
      BY <1>2 DEF toggle_all_measures
  <2>2. PickNestedOK(p.nested)
      BY <1>2 DEF PickTyped, PickBase
  <2>3. sel \subseteq PickIds(p.nested.catalog) /\ select \in BOOLEAN
      OBVIOUS
  <2>4. set_explicit_all(p.nested, select) = n
    <3> HIDE DEF select
    <3>1. \A k \in {"catalog", "selected", "all", "query"} : k \in DOMAIN p.nested
        BY <2>2 DEF PickNestedOK, PickNestedType
    <3> QED BY <3>1 DEF set_explicit_all
  <2> HIDE DEF select, sel, q
  <2>5. PickNestedOK(n) /\ n.catalog = p.nested.catalog
      BY <2>2, <2>3, PickChosenTyped
  <2> HIDE DEF n
  <2> QED BY <1>2, <2>1, <2>4, <2>5, PickChoiceTyped DEF q
<1>3. CASE p.nested # PickNone /\ p.search # <<>>
  <2>1. q = sync_measure_projection(IF changed = {} THEN p
                                    ELSE [p EXCEPT !.nested = Choose(p.nested, changed, select)])
      BY <1>3 DEF toggle_all_measures
  <2>2. changed \subseteq PickIds(p.nested.catalog)
      BY <1>3, PickSeenTyped
  <2> HIDE DEF select, changed, q
  <2> QED BY <1>3, <2>1, <2>2, PickIdleTyped, PickChooseTyped DEF q
<1> QED BY <1>1, <1>2, <1>3

LEMMA PickSearchTyped ==
    ASSUME NEW p, PickTyped(p), NEW s \in PickQueries PROVE PickTyped(SetSearch(p, s))
<1> DEFINE fl == IF p.flat = PickNone THEN p.flat ELSE [p.flat EXCEPT !.query = s]
           ne == IF p.nested = PickNone THEN p.nested ELSE [p.nested EXCEPT !.query = s]
           u == [p EXCEPT !.search = s, !.flat = fl, !.nested = ne]
           v == sync_measure_projection(u)
<1>1. SetSearch(p, s) = [v EXCEPT !.cursor = 1]
    BY DEF SetSearch
<1>2. ne = PickNone \/ (PickNestedOK(ne) /\ ne.catalog = p.nested.catalog)
  <2>1. CASE p.nested = PickNone
      BY <2>1
  <2>2. CASE p.nested # PickNone
    <3>1. p.nested \in PickNestedType /\ p.nested.selected \subseteq PickIds(p.nested.catalog)
        BY <2>2 DEF PickTyped, PickBase, PickNestedOK
    <3>2. ne = [p.nested EXCEPT !.query = s]
        BY <2>2
    <3> HIDE DEF ne
    <3>3. ne \in PickNestedType /\ ne.selected = p.nested.selected /\ ne.catalog = p.nested.catalog
        BY <3>1, <3>2 DEF PickNestedType
    <3> QED BY <3>1, <3>3 DEF PickNestedOK
  <2> QED BY <2>1, <2>2
<1>3. fl = PickNone \/ PickFlatOK(fl)
  <2>1. CASE p.flat = PickNone
      BY <2>1
  <2>2. CASE p.flat # PickNone
    <3>1. p.flat \in PickFlatType /\ p.flat.selected \subseteq PickIds(p.flat.catalog)
        BY <2>2 DEF PickTyped, PickBase, PickFlatOK
    <3>2. fl = [p.flat EXCEPT !.query = s]
        BY <2>2
    <3> HIDE DEF fl
    <3>3. fl \in PickFlatType /\ fl.selected = p.flat.selected /\ fl.catalog = p.flat.catalog
        BY <3>1, <3>2 DEF PickFlatType
    <3> QED BY <3>1, <3>3 DEF PickFlatOK
  <2> QED BY <2>1, <2>2
<1>4. (ne = PickNone <=> p.nested = PickNone) /\ (fl = PickNone <=> p.flat = PickNone)
  <2>1. p.nested # PickNone => ne # PickNone
    <3>1. p.nested # PickNone => p.nested \in PickNestedType
        BY DEF PickTyped, PickBase, PickNestedOK
    <3>2. p.nested # PickNone => ne \in PickNestedType
        BY <3>1 DEF PickNestedType
    <3> QED BY <3>2, PickAssumption
  <2>2. p.flat # PickNone => fl # PickNone
    <3>1. p.flat # PickNone => p.flat \in PickFlatType
        BY DEF PickTyped, PickBase, PickFlatOK
    <3>2. p.flat # PickNone => fl \in PickFlatType
        BY <3>1 DEF PickFlatType
    <3> QED BY <3>2, PickAssumption
  <2> QED BY <2>1, <2>2
<1> HIDE DEF ne, fl
<1>5. /\ \A x \in PickFields : x \in DOMAIN u
      /\ u.rows = p.rows /\ u.marked = p.marked /\ u.nested = ne /\ u.flat = fl
      /\ u.search = s /\ u.pair = p.pair /\ u.cursor = p.cursor /\ u.screen = p.screen /\ u.report = p.report
    BY DEF PickTyped, PickBase, PickFields
<1> HIDE DEF u
<1>6. PickBase(u)
    BY <1>2, <1>3, <1>4, <1>5 DEF PickTyped, PickBase
<1>7. PickTyped(v)
  <2>1. u.marked \subseteq PickRowIds(u)
      BY <1>5 DEF PickTyped, PickLaid, PickRowIds
  <2> QED BY <1>6, <2>1, PickSyncTyped
<1> HIDE DEF v
<1>8. visible_indices(v) # {} => 1 <= Cardinality(visible_indices(v))
    BY <1>7, PickVisible DEF PickTyped
<1> QED BY <1>1, <1>7, <1>8, PickCursorTyped DEF PickTyped

(* A new nested selection with a choice in it. *)
LEMMA PickNewTyped ==
    ASSUME NEW c \in PickAny, NEW ids, ids \subseteq PickIds(c)
    PROVE  LET n == [NewNested(c) EXCEPT !.selected = ids]
           IN  n # PickNone /\ PickNestedOK(n) /\ n.catalog = c /\ n.selected = ids
<1> DEFINE b == NewNested(c)
           n == [b EXCEPT !.selected = ids]
<1>1. b \in PickNestedType /\ b.catalog = c
    BY DEF NewNested, PickNestedType, PickQueries
<1>2. ids \in SUBSET PickEveryId
    BY DEF PickEveryId
<1> HIDE DEF b
<1>3. n \in PickNestedType /\ n.catalog = c /\ n.selected = ids
    BY <1>1, <1>2 DEF PickNestedType
<1>4. n # PickNone /\ PickNestedOK(n)
    BY <1>3, PickAssumption DEF PickNestedOK
<1> QED BY <1>3, <1>4 DEF b

(* A snapshot. *)
LEMMA PickSnapshotTyped ==
    ASSUME NEW p, PickTyped(p), NEW s, PickServed(s) PROVE PickTyped(PickSnapshot(p, s))
<1> DEFINE v == SnapshotSelections(p, s)
           kept == v.pair \cap PickReported(s)
           w == [v EXCEPT !.pair = kept, !.live = s, !.report = 1]
<1>1. PickSnapshot(p, s) = clamp_measure_cursor(w)
    BY DEF PickSnapshot
<1>2. PickTyped(v)
  <2>1. CASE ~PickTaken(s)
    <3>1. v = p
        BY <2>1 DEF SnapshotSelections, selection_from_catalog, PickTaken
    <3> QED BY <3>1
  <2>2. CASE PickTaken(s)
    <3> DEFINE c == s.catalog
               fl == selection_from_catalog(c, p.flat)
               ne == nested_selection_from_catalog(c, p.nested)
               u == [p EXCEPT !.flat = fl, !.nested = ne, !.revision = s.revision]
    <3>1. c \in PickCatalogs /\ Measurement_new(c)
        BY <2>2 DEF PickTaken, PickServed
    <3>2. fl # PickNone /\ PickFlatOK(fl) /\ fl.catalog = c
      <4> DEFINE ids == IF p.flat = PickNone THEN {} ELSE p.flat.selected \cap PickIds(c)
      <4>1. fl = [catalog |-> c, query |-> <<>>, selected |-> ids]
          BY <3>1 DEF selection_from_catalog
      <4>2. ids \subseteq PickIds(c)
          OBVIOUS
      <4>3. ids \in SUBSET PickEveryId
          BY <3>1, <4>2 DEF PickEveryId, PickAny
      <4> HIDE DEF ids, fl
      <4>4. fl \in PickFlatType
          BY <3>1, <4>1, <4>3 DEF PickFlatType, PickQueries
      <4>5. fl.selected = ids /\ fl.catalog = c
          BY <4>1
      <4> QED BY <4>2, <4>4, <4>5, PickAssumption DEF PickFlatOK
    <3>3. ne = PickNone \/ (PickNestedOK(ne) /\ ne.catalog = c)
      <4> DEFINE ids == IF p.nested = PickNone THEN {}
                        ELSE selected_measure_ids(p.nested) \cap PickIds(c) \cap c.live
      <4>1. ne = PickNone \/ ne = [NewNested(c) EXCEPT !.selected = ids]
          BY DEF nested_selection_from_catalog
      <4>2. ids \subseteq PickIds(c) /\ c \in PickAny
          BY <3>1 DEF PickAny
      <4> HIDE DEF ids, ne, c
      <4> DEFINE n == [NewNested(c) EXCEPT !.selected = ids]
      <4>3. PickNestedOK(n) /\ n.catalog = c
          BY <4>2, PickNewTyped
      <4> HIDE DEF n
      <4> QED BY <4>1, <4>3 DEF n
    <3>4. v = sync_measure_projection(u)
        BY <2>2, <3>2 DEF SnapshotSelections, PickTaken
    <3> HIDE DEF fl, ne
    <3>5. /\ \A x \in PickFields : x \in DOMAIN u
          /\ u.nested = ne /\ u.flat = fl
          /\ u.search = p.search /\ u.pair = p.pair /\ u.cursor = p.cursor /\ u.screen = p.screen /\ u.report = p.report
        BY DEF PickTyped, PickBase, PickFields
    <3> HIDE DEF u
    <3>6. PickBase(u)
        BY <3>2, <3>3, <3>5 DEF PickTyped, PickBase
    <3> QED BY <3>2, <3>4, <3>5, <3>6, PickSyncTyped
  <2> QED BY <2>1, <2>2
<1> HIDE DEF v
<1>3. IsFiniteSet(kept) /\ Cardinality(kept) <= 2
  <2>1. IsFiniteSet(v.pair) /\ Cardinality(v.pair) <= 2
      BY <1>2 DEF PickTyped, PickBase
  <2>2. kept \in SUBSET v.pair
      OBVIOUS
  <2> HIDE DEF kept
  <2>3. IsFiniteSet(kept) /\ Cardinality(kept) <= Cardinality(v.pair)
      BY <2>1, <2>2, FS_Subset
  <2>4. Cardinality(kept) \in Nat /\ Cardinality(v.pair) \in Nat
      BY <2>1, <2>3, FS_CardinalityType
  <2> QED BY <2>1, <2>3, <2>4
<1> HIDE DEF kept
<1>4. /\ \A x \in PickFields : x \in DOMAIN w
      /\ w.rows = v.rows /\ w.marked = v.marked /\ w.nested = v.nested /\ w.flat = v.flat
      /\ w.search = v.search /\ w.pair = kept /\ w.cursor = v.cursor /\ w.screen = v.screen /\ w.report = 1
    BY <1>2 DEF PickTyped, PickBase, PickFields
<1> HIDE DEF w
<1>5. PickBase(w)
    BY <1>2, <1>3, <1>4 DEF PickTyped, PickBase
<1>6. PickLaid(w)
    BY <1>2, <1>4 DEF PickTyped, PickLaid, PickRowIds
<1> QED BY <1>1, <1>5, <1>6, PickClampTyped

LEMMA PickTypedStart == PickInit => PickTyped(pick)
<1> SUFFICES ASSUME PickInit PROVE PickTyped(pick)
    OBVIOUS
<1> DEFINE n == [NewNested(PickDevelopment) EXCEPT !.selected = PickChosen]
<1>1. /\ \A k \in PickFields : k \in DOMAIN pick
      /\ pick.nested = n /\ pick.flat = PickNone /\ pick.rows = PickDevelopment.measures
      /\ pick.marked = PickChosen /\ pick.search = <<>> /\ pick.pair = {} /\ pick.cursor = 1
      /\ pick.screen = "Measures" /\ pick.report = 1
    BY DEF PickInit, PickFields
<1>2. PickChosen \subseteq PickIds(PickDevelopment) /\ PickDevelopment \in PickAny
    BY PickAssumption DEF PickAny
<1>3. n # PickNone /\ PickNestedOK(n) /\ n.catalog = PickDevelopment
    BY <1>2, PickNewTyped
<1> HIDE DEF n
<1>4. <<>> \in PickQueries /\ IsFiniteSet({}) /\ Cardinality({}) = 0
    BY FS_EmptySet DEF PickQueries
<1>5. PickBase(pick)
    BY <1>1, <1>3, <1>4 DEF PickBase
<1>6. PickLaid(pick)
    BY <1>1, <1>2 DEF PickLaid, PickRowIds, PickIds
<1>7. PickPlaced(pick)
    BY <1>1, <1>5, <1>6, PickVisible DEF PickPlaced
<1> QED BY <1>5, <1>6, <1>7 DEF PickTyped

(* A key that touches neither the selections nor the rows. *)
LEMMA PickOtherTyped ==
    ASSUME NEW p, PickTyped(p), NEW q, \A x \in PickFields : x \in DOMAIN q,
           q.rows = p.rows, q.marked = p.marked, q.nested = p.nested, q.flat = p.flat,
           q.search = p.search, q.cursor = p.cursor,
           q.screen \in {"Measures", "Reports"}, q.report \in 1..3,
           IsFiniteSet(q.pair), Cardinality(q.pair) <= 2
    PROVE  PickTyped(q)
<1>1. PickBase(q)
    BY DEF PickTyped, PickBase
<1>2. PickLaid(q)
    BY DEF PickTyped, PickLaid, PickRowIds
<1>3. visible_indices(q) = visible_indices(p)
    BY DEF visible_indices
<1>4. PickPlaced(q)
    BY <1>3 DEF PickTyped, PickPlaced
<1> QED BY <1>1, <1>2, <1>4 DEF PickTyped

LEMMA PickSearchKeyTyped == PickTyped(pick) /\ KeySearch => PickTyped(pick)'
<1> SUFFICES ASSUME PickTyped(pick), KeySearch PROVE PickTyped(pick')
    OBVIOUS
<1>1. pick.search \in PickQueries /\ \A k \in PickFields : k \in DOMAIN pick
    BY DEF PickTyped, PickBase
<1>2. ASSUME NEW b, pick' = [pick EXCEPT !.focused = b] PROVE PickTyped(pick')
  <2>1. /\ \A x \in PickFields : x \in DOMAIN pick'
        /\ pick'.rows = pick.rows /\ pick'.marked = pick.marked /\ pick'.nested = pick.nested
        /\ pick'.flat = pick.flat /\ pick'.search = pick.search /\ pick'.cursor = pick.cursor
        /\ pick'.screen = pick.screen /\ pick'.report = pick.report /\ pick'.pair = pick.pair
      BY <1>1, <1>2 DEF PickFields
  <2> HIDE <1>2
  <2>2. /\ pick.screen \in {"Measures", "Reports"} /\ pick.report \in 1..3
        /\ IsFiniteSet(pick.pair) /\ Cardinality(pick.pair) <= 2
      BY DEF PickTyped, PickBase
  <2> QED BY <2>1, <2>2, PickOtherTyped
<1>3. ASSUME NEW m \in PickMatches,
             pick' = SetSearch(pick, Append(pick.search, PickMatched(pick.search, m)))
      PROVE  PickTyped(pick')
  <2>1. PickMatched(pick.search, m) \in SUBSET PickEveryId
      BY PickAssumption DEF PickMatched
  <2>2. Append(pick.search, PickMatched(pick.search, m)) \in PickQueries
      BY <1>1, <2>1 DEF PickQueries
  <2> QED BY <1>3, <2>2, PickSearchTyped
<1>4. ASSUME pick' = SetSearch(pick, IF pick.search = <<>> THEN <<>>
                                     ELSE SubSeq(pick.search, 1, Len(pick.search) - 1))
      PROVE  PickTyped(pick')
  <2> DEFINE s == IF pick.search = <<>> THEN <<>> ELSE SubSeq(pick.search, 1, Len(pick.search) - 1)
  <2>1. s \in PickQueries
      BY <1>1 DEF PickQueries
  <2> HIDE DEF s
  <2> QED BY <1>4, <2>1, PickSearchTyped DEF s
<1> QED BY <1>2, <1>3, <1>4 DEF KeySearch

LEMMA PickMoveTyped == PickTyped(pick) /\ KeyUpDown => PickTyped(pick)'
<1> SUFFICES ASSUME PickTyped(pick), KeyUpDown PROVE PickTyped(pick')
    OBVIOUS
<1> DEFINE V == visible_indices(pick)
           n == IF AtMeasures THEN Cardinality(V) ELSE 3
           moved(down, c) == IF down THEN (IF c < n THEN c + 1 ELSE n) ELSE (IF c > 1 THEN c - 1 ELSE 1)
<1>1. PICK down \in BOOLEAN :
         pick' = IF n = 0 THEN [pick EXCEPT !.cursor = 1]
                 ELSE IF AtMeasures THEN [pick EXCEPT !.cursor = moved(down, pick.cursor)]
                 ELSE [pick EXCEPT !.report = moved(down, pick.report)]
    BY DEF KeyUpDown
<1>2. /\ pick.cursor \in Nat /\ pick.report \in 1..3 /\ pick.screen \in {"Measures", "Reports"}
      /\ IsFiniteSet(pick.pair) /\ Cardinality(pick.pair) <= 2
      /\ \A k \in PickFields : k \in DOMAIN pick
    BY DEF PickTyped, PickBase
<1>3. /\ Cardinality(V) \in Nat /\ (Cardinality(V) = 0 <=> V = {})
      /\ V # {} => pick.cursor <= Cardinality(V)
    BY PickVisible DEF PickTyped, PickPlaced
<1>4. CASE AtMeasures /\ n = 0
    BY <1>1, <1>3, <1>4, PickCursorTyped DEF PickTyped
<1>5. CASE AtMeasures /\ n # 0
  <2>1. moved(down, pick.cursor) \in Nat /\ moved(down, pick.cursor) <= Cardinality(V)
      BY <1>2, <1>3, <1>5
  <2>2. pick' = [pick EXCEPT !.cursor = moved(down, pick.cursor)]
      BY <1>1, <1>5
  <2> HIDE DEF moved
  <2> QED BY <2>1, <2>2, PickCursorTyped DEF PickTyped
<1>6. CASE ~AtMeasures
  <2>1. pick' = [pick EXCEPT !.report = moved(down, pick.report)]
      BY <1>1, <1>6
  <2>2. moved(down, pick.report) \in 1..3
      BY <1>2, <1>6
  <2> HIDE DEF moved
  <2>3. /\ \A x \in PickFields : x \in DOMAIN pick'
        /\ pick'.rows = pick.rows /\ pick'.marked = pick.marked /\ pick'.nested = pick.nested
        /\ pick'.flat = pick.flat /\ pick'.search = pick.search /\ pick'.cursor = pick.cursor
        /\ pick'.screen = pick.screen /\ pick'.report = moved(down, pick.report) /\ pick'.pair = pick.pair
      BY <1>2, <2>1 DEF PickFields
  <2> QED BY <1>2, <2>2, <2>3, PickOtherTyped
<1> QED BY <1>4, <1>5, <1>6

LEMMA PickPairTyped == PickTyped(pick) /\ (KeyCompare \/ KeyScreen) => PickTyped(pick)'
<1> SUFFICES ASSUME PickTyped(pick), KeyCompare \/ KeyScreen PROVE PickTyped(pick')
    OBVIOUS
<1>1. /\ pick.report \in 1..3 /\ pick.screen \in {"Measures", "Reports"}
      /\ IsFiniteSet(pick.pair) /\ Cardinality(pick.pair) <= 2
      /\ \A k \in PickFields : k \in DOMAIN pick
    BY DEF PickTyped, PickBase
<1>2. Cardinality(pick.pair) \in Nat
    BY <1>1, FS_CardinalityType
<1>3. CASE KeyScreen
  <2>1. /\ \A x \in PickFields : x \in DOMAIN pick'
        /\ pick'.rows = pick.rows /\ pick'.marked = pick.marked /\ pick'.nested = pick.nested
        /\ pick'.flat = pick.flat /\ pick'.search = pick.search /\ pick'.cursor = pick.cursor
        /\ pick'.screen \in {"Measures", "Reports"} /\ pick'.report = pick.report /\ pick'.pair = pick.pair
      BY <1>1, <1>3 DEF PickFields, KeyScreen
  <2> QED BY <1>1, <2>1, PickOtherTyped
<1>4. CASE KeyCompare
  <2>1. PICK r \in operator_run_selection(pick).selected :
           pick' = IF r \in pick.pair THEN [pick EXCEPT !.pair = pick.pair \ {r}]
                   ELSE IF Cardinality(pick.pair) < 2 THEN [pick EXCEPT !.pair = pick.pair \cup {r}]
                   ELSE pick
      BY <1>4 DEF KeyCompare
  <2>2. ASSUME NEW pair, pick' = [pick EXCEPT !.pair = pair], IsFiniteSet(pair), Cardinality(pair) <= 2
        PROVE  PickTyped(pick')
    <3>1. /\ \A x \in PickFields : x \in DOMAIN pick'
          /\ pick'.rows = pick.rows /\ pick'.marked = pick.marked /\ pick'.nested = pick.nested
          /\ pick'.flat = pick.flat /\ pick'.search = pick.search /\ pick'.cursor = pick.cursor
          /\ pick'.screen = pick.screen /\ pick'.report = pick.report /\ pick'.pair = pair
        BY <1>1, <2>2 DEF PickFields
    <3> QED BY <1>1, <2>2, <3>1, PickOtherTyped
  <2>3. IsFiniteSet(pick.pair \ {r}) /\ (r \in pick.pair => Cardinality(pick.pair \ {r}) <= 2)
      BY <1>1, <1>2, FS_RemoveElement
  <2>4. /\ IsFiniteSet(pick.pair \cup {r})
        /\ r \notin pick.pair => Cardinality(pick.pair \cup {r}) = Cardinality(pick.pair) + 1
      BY <1>1, FS_AddElement
  <2>5. r \notin pick.pair /\ Cardinality(pick.pair) < 2 => Cardinality(pick.pair \cup {r}) <= 2
      BY <1>2, <2>4
  <2> QED BY <2>1, <2>2, <2>3, <2>4, <2>5
<1> QED BY <1>3, <1>4

LEMMA PickTypedNext == PickTyped(pick) /\ [PickNext]_pick => PickTyped(pick)'
<1> SUFFICES ASSUME PickTyped(pick), [PickNext]_pick PROVE PickTyped(pick')
    OBVIOUS
<1>1. CASE UNCHANGED pick
    BY <1>1
<1>2. CASE KeySearch
    BY <1>2, PickSearchKeyTyped
<1>3. CASE KeyMeasure
    BY <1>3, PickMeasureTyped DEF KeyMeasure
<1>4. CASE KeyGroup
    BY <1>4, PickGroupTyped DEF KeyGroup
<1>5. CASE KeyBenchmark
    BY <1>5, PickBenchmarkTyped DEF KeyBenchmark
<1>6. CASE KeyAll
    BY <1>6, PickAllTyped DEF KeyAll
<1>7. CASE KeyUpDown
    BY <1>7, PickMoveTyped
<1>8. CASE KeyCompare \/ KeyScreen
    BY <1>8, PickPairTyped
<1>9. CASE PickRefresh
  <2>1. PICK r \in 0..PickRevisionMax, c \in PickCatalogs \cup {PickNone}, runs \in PickRuns :
           pick' = PickSnapshot(pick, [revision |-> r, catalog |-> c, runs |-> runs])
      BY <1>9 DEF PickRefresh
  <2> DEFINE s == [revision |-> r, catalog |-> c, runs |-> runs]
  <2>2. PickServed(s)
      BY DEF PickServed
  <2> HIDE DEF s
  <2> QED BY <2>1, <2>2, PickSnapshotTyped DEF s
<1> QED BY <1>1, <1>2, <1>3, <1>4, <1>5, <1>6, <1>7, <1>8, <1>9 DEF PickNext

(* The cursor and the marks of the picker are on rows it shows, and at most  *)
(* two runs are compared, through every search, toggle and refresh (ui.rs,   *)
(* clamp_measure_cursor, sync_measure_projection).                           *)
THEOREM PickerTypes == PickSpec => []PickTypeOK
<1>1. PickTyped(pick) => PickTypeOK
  <2> SUFFICES ASSUME PickTyped(pick) PROVE PickTypeOK
      OBVIOUS
  <2>1. pick.nested = PickNone \/
          (pick.nested.catalog \in PickAny /\ pick.nested.selected \subseteq PickIds(pick.nested.catalog))
      BY DEF PickTyped, PickBase, PickNestedOK, PickNestedType
  <2>2. pick.flat = PickNone \/
          (pick.flat.catalog \in PickCatalogs /\ pick.flat.selected \subseteq PickIds(pick.flat.catalog))
      BY DEF PickTyped, PickBase, PickFlatOK, PickFlatType
  <2>3. pick.marked \subseteq {pick.rows[i] : i \in 1..Len(pick.rows)}
      BY DEF PickTyped, PickLaid, PickRowIds
  <2>4. /\ pick.screen \in {"Measures", "Reports"} /\ pick.report \in 1..3 /\ Cardinality(pick.pair) <= 2
        /\ visible_indices(pick) # {} => pick.cursor <= Cardinality(visible_indices(pick))
      BY DEF PickTyped, PickBase, PickPlaced
  <2> QED BY <2>1, <2>2, <2>3, <2>4 DEF PickTypeOK
<1> QED BY <1>1, PickTypedStart, PickTypedNext, PTL DEF PickSpec

-----------------------------------------------------------------------------
(* The session.  Answers are told apart by identifier and kind; the tables   *)
(* below say which operations may stand beside which identifier.             *)

SesLatePairs ==
    {<<"configuration_apply", 1001>>, <<"provider_catalog", 1002>>, <<"campaign_estimate", 1002>>,
     <<"fanout", 1301>>, <<"fanout_cancel", 1302>>, <<"create_plan", 1201>>, <<"launch", 1202>>,
     <<"cancel_run", 1203>>, <<"auth_enroll", 1101>>, <<"auth_rotate", 1102>>, <<"auth_revoke", 1103>>,
     <<"auth_status", 1104>>, <<"auth_helper_invoke", 1105>>, <<"campaign_plan", 1008>>,
     <<"cassette_catalog", 1008>>, <<"replay_dispatch", 1009>>, <<"repeat", 1014>>, <<"analyze", 1015>>,
     <<"execute", 1003>>, <<"progress", 1004>>, <<"cancel", 1005>>, <<"reconcile", 1006>>,
     <<"offline_default", 1007>>, <<"seal", 1010>>, <<"reopen", 1011>>, <<"remove", 1012>>, <<"retry", 1013>>}

SesPollOps == {"capabilities", "benchmark_catalog", "measurement_catalog", "history", "agent_catalog",
               "agent_status", "provider_catalog", "configuration_status", "campaign_status"}

LEMMA SesPollKinds ==
    \A a, b \in SesPollOps : Kind(a) = Kind(b) => a = b
<1>1. /\ Kind("agent_status") = "AgentLifecycle" /\ Kind("configuration_status") = "Configuration"
    BY DEF Kind, AgentCalls, CampaignCalls, CassetteCalls
<1>2. \A a \in SesPollOps \ {"agent_status", "configuration_status"} : Kind(a) = a
    BY DEF Kind, AgentCalls, CampaignCalls, CassetteCalls, SesPollOps
<1> QED BY <1>1, <1>2 DEF SesPollOps

LEMMA SesBoot ==
    ASSUME NEW v \in SUPPORTED_CONTROL_VERSIONS
    PROVE  /\ v < 2 => ordered_bootstrap_calls(v) = <<"capabilities", "history">>
           /\ v \in 2..3 => ordered_bootstrap_calls(v) = <<"capabilities", "measurement_catalog", "history">>
           /\ v \in 4..9 => ordered_bootstrap_calls(v)
                              = <<"capabilities", "measurement_catalog", "history", "agent_catalog">>
           /\ v >= 10 => ordered_bootstrap_calls(v)
                              = <<"capabilities", "benchmark_catalog", "measurement_catalog", "history",
                                  "agent_catalog">>
BY DEF ordered_bootstrap_calls, SUPPORTED_CONTROL_VERSIONS

SesGood(x) == <<x.op, x.id>> \in SesLatePairs /\ x.gate \in Nat /\ x.gate >= minimum_version(x.op)
                /\ minimum_version(x.op) \in Nat
SesGoodTable(f) == \A e \in DOMAIN f : SesGood(f[e])

LEMMA SesMerge == \A f, g : SesGoodTable(f) /\ SesGoodTable(g) => SesGoodTable(Both(f, g))
BY DEF SesGoodTable, Both

LEMMA SesNeeds ==
    /\ \A op \in {"repeat", "analyze", "create_plan", "launch", "cancel_run", "capabilities", "history"} :
          minimum_version(op) = 0
    /\ minimum_version("measurement_catalog") = 2 /\ minimum_version("agent_catalog") = 4
    /\ minimum_version("agent_status") = 5
    /\ \A op \in {"auth_enroll", "auth_status", "auth_rotate", "auth_revoke"} : minimum_version(op) = 6
    /\ \A op \in {"provider_catalog", "configuration_status", "configuration_apply", "campaign_estimate",
                   "campaign_plan", "campaign_status"} : minimum_version(op) = 7
    /\ \A op \in CampaignCalls : minimum_version(op) = 8
    /\ minimum_version("benchmark_catalog") = 10 /\ minimum_version("auth_helper_invoke") = 10
    /\ \A op \in {"cassette_catalog", "replay_dispatch"} : minimum_version(op) = 12
    /\ \A op \in CassetteCalls : minimum_version(op) = 13
    /\ \A op \in {"fanout", "fanout_cancel"} : minimum_version(op) = 14
<1> USE DEF minimum_version, AgentCalls, CampaignCalls, CassetteCalls
<1>1. \A op \in {"repeat", "analyze", "create_plan", "launch", "cancel_run", "capabilities", "history"} :
          minimum_version(op) = 0
    OBVIOUS
<1>2. /\ minimum_version("measurement_catalog") = 2 /\ minimum_version("agent_catalog") = 4
      /\ minimum_version("agent_status") = 5
    OBVIOUS
<1>3. \A op \in {"auth_enroll", "auth_status", "auth_rotate", "auth_revoke"} : minimum_version(op) = 6
    OBVIOUS
<1>4. \A op \in {"provider_catalog", "configuration_status", "configuration_apply", "campaign_estimate",
                   "campaign_plan", "campaign_status"} : minimum_version(op) = 7
    OBVIOUS
<1>5. \A op \in CampaignCalls : minimum_version(op) = 8
    OBVIOUS
<1>6. minimum_version("benchmark_catalog") = 10 /\ minimum_version("auth_helper_invoke") = 10
    OBVIOUS
<1>7. \A op \in {"cassette_catalog", "replay_dispatch"} : minimum_version(op) = 12
    OBVIOUS
<1>8. \A op \in CassetteCalls : minimum_version(op) = 13
    OBVIOUS
<1>9. \A op \in {"fanout", "fanout_cancel"} : minimum_version(op) = 14
    OBVIOUS
<1> HIDE DEF minimum_version, AgentCalls, CampaignCalls, CassetteCalls
<1> QED BY <1>1, <1>2, <1>3, <1>4, <1>5, <1>6, <1>7, <1>8, <1>9

LEMMA SesPoint ==
    ASSUME NEW op, NEW n \in Nat, NEW gate \in Nat, <<op, 1000 + n>> \in SesLatePairs,
           minimum_version(op) \in Nat, gate >= minimum_version(op)
    PROVE  SesGood(EntryPoint(op, n, gate))
BY DEF SesGood, EntryPoint, Late

LEMMA SesTable == SesGoodTable(SessionEntry)
<1> USE DEF SesGoodTable
<1> DEFINE single == [apply_configuration |-> apply_configuration,
                   refresh_provider_catalog |-> refresh_provider_catalog,
                   admit_fanout |-> admit_fanout, cancel_fanout |-> cancel_fanout,
                   cancel_active_run |-> cancel_active_run, invoke_auth_helper |-> invoke_auth_helper]
           mutations == [op \in CampaignCalls \cup CassetteCalls |-> recording_mutation(op)]
           campaigns == Both(CampaignEntries, Both(CassetteEntries, mutations))
<1>1. SesGoodTable(single)
  <2>1. SesGood(apply_configuration) /\ SesGood(refresh_provider_catalog)
      BY SesNeeds, SesPoint DEF apply_configuration, refresh_provider_catalog, SesLatePairs
  <2>2. SesGood(admit_fanout) /\ SesGood(cancel_fanout)
      BY SesNeeds, SesPoint DEF admit_fanout, cancel_fanout, SesLatePairs
  <2>3. SesGood(cancel_active_run) /\ SesGood(invoke_auth_helper)
      BY SesNeeds, SesPoint DEF cancel_active_run, invoke_auth_helper, SesLatePairs
  <2> QED BY <2>1, <2>2, <2>3
<1>2. SesGoodTable(launch_materialized)
  <2>1. SesGood(EntryPoint("create_plan", 201, 0)) /\ SesGood(EntryPoint("launch", 202, 0))
      BY SesNeeds, SesPoint DEF SesLatePairs
  <2> QED BY <2>1 DEF launch_materialized
<1>3. SesGoodTable(AuthEntries)
  <2>1. SesGood(EntryPoint("auth_enroll", 101, 6)) /\ SesGood(EntryPoint("auth_rotate", 102, 6))
      BY SesNeeds, SesPoint DEF SesLatePairs
  <2>2. SesGood(EntryPoint("auth_revoke", 103, 6)) /\ SesGood(EntryPoint("auth_status", 104, 6))
      BY SesNeeds, SesPoint DEF SesLatePairs
  <2> QED BY <2>1, <2>2 DEF AuthEntries
<1>4. SesGoodTable(RunEntries)
  <2>1. SesGood(EntryPoint("repeat", 14, 0)) /\ SesGood(EntryPoint("analyze", 15, 0))
      BY SesNeeds, SesPoint DEF SesLatePairs
  <2> QED BY <2>1 DEF RunEntries
<1>5. SesGoodTable(CampaignEntries)
  <2>1. SesGood(EntryPoint("campaign_estimate", 2, 7)) /\ SesGood(EntryPoint("campaign_plan", 8, 7))
      BY SesNeeds, SesPoint DEF SesLatePairs
  <2> QED BY <2>1 DEF CampaignEntries
<1>6. SesGoodTable(CassetteEntries)
  <2>1. SesGood(EntryPoint("cassette_catalog", 8, 12)) /\ SesGood(EntryPoint("replay_dispatch", 9, 12))
      BY SesNeeds, SesPoint DEF SesLatePairs
  <2> QED BY <2>1 DEF CassetteEntries
<1>7. SesGoodTable(mutations)
  <2>1. ASSUME NEW op \in CampaignCalls PROVE SesGood(recording_mutation(op))
    <3>1. MutationId[op] \in Nat /\ <<op, 1000 + MutationId[op]>> \in SesLatePairs
        BY DEF CampaignCalls, MutationId, SesLatePairs
    <3>2. recording_mutation(op) = EntryPoint(op, MutationId[op], 8)
        BY DEF recording_mutation, CampaignCalls, CassetteCalls
    <3> QED BY <3>1, <3>2, SesNeeds, SesPoint
  <2>2. ASSUME NEW op \in CassetteCalls PROVE SesGood(recording_mutation(op))
    <3>1. MutationId[op] \in Nat /\ <<op, 1000 + MutationId[op]>> \in SesLatePairs
        BY DEF CassetteCalls, MutationId, SesLatePairs
    <3>2. recording_mutation(op) = EntryPoint(op, MutationId[op], 13)
        BY DEF recording_mutation
    <3> QED BY <3>1, <3>2, SesNeeds, SesPoint
  <2> QED BY <2>1, <2>2
<1>8. SessionEntry = Both(single, Both(launch_materialized, Both(AuthEntries, Both(RunEntries, campaigns))))
    BY DEF SessionEntry
<1> HIDE DEF single, mutations, SesGoodTable
<1> QED BY <1>1, <1>2, <1>3, <1>4, <1>5, <1>6, <1>7, <1>8, SesMerge

(* Two entry points share an identifier only with answers of another kind. *)
LEMMA SesLateKinds ==
    ASSUME NEW p \in SesLatePairs, NEW q \in SesLatePairs, p[2] = q[2], Kind(p[1]) = Kind(q[1])
    PROVE  p[1] = q[1]
<1> DEFINE shared == {<<"provider_catalog", 1002>>, <<"campaign_estimate", 1002>>, <<"campaign_plan", 1008>>,
                      <<"cassette_catalog", 1008>>}
<1>1. p[1] = q[1] \/ (p \in shared /\ q \in shared)
    BY DEF SesLatePairs
<1>2. \A r \in shared : Kind(r[1]) = r[1]
    BY DEF Kind, AgentCalls, CampaignCalls, CassetteCalls
<1> QED BY <1>1, <1>2

LEMMA SesLateBounds ==
    \A p \in SesLatePairs : p[2] \in Nat /\ p[2] >= 1000 /\ p[1] \notin AgentCalls \cup {"agent_catalog"}
BY DEF SesLatePairs, AgentCalls

(* The bootstrap ends with the catalog of agents, once there is one. *)
SesBootOps == SesPollOps \ {"agent_status", "provider_catalog", "configuration_status", "campaign_status"}

LEMMA SesBootCalls ==
    ASSUME NEW v \in SUPPORTED_CONTROL_VERSIONS
    PROVE  /\ PollBoot(v) \in 2..5
           /\ \A n \in 1..PollBoot(v) :
                 /\ ordered_bootstrap_calls(v)[n] \in SesBootOps
                 /\ minimum_version(ordered_bootstrap_calls(v)[n]) \in Nat
                 /\ v >= minimum_version(ordered_bootstrap_calls(v)[n])
                 /\ ordered_bootstrap_calls(v)[n] = "agent_catalog" <=> (v >= 4 /\ n = PollBoot(v))
<1>1. v \in Nat /\ v <= 15
    BY DEF SUPPORTED_CONTROL_VERSIONS
<1>2. ASSUME NEW calls, calls = ordered_bootstrap_calls(v), NEW k \in 2..5, Len(calls) = k,
             \A n \in 1..k :
                 /\ calls[n] \in SesBootOps
                 /\ minimum_version(calls[n]) \in Nat /\ v >= minimum_version(calls[n])
                 /\ calls[n] = "agent_catalog" <=> (v >= 4 /\ n = k)
      PROVE  /\ PollBoot(v) \in 2..5
             /\ \A n \in 1..PollBoot(v) :
                 /\ ordered_bootstrap_calls(v)[n] \in SesBootOps
                 /\ minimum_version(ordered_bootstrap_calls(v)[n]) \in Nat
                 /\ v >= minimum_version(ordered_bootstrap_calls(v)[n])
                 /\ ordered_bootstrap_calls(v)[n] = "agent_catalog" <=> (v >= 4 /\ n = PollBoot(v))
    BY <1>2 DEF PollBoot
<1>3. CASE v < 2
  <2> DEFINE calls == <<"capabilities", "history">>
  <2>1. calls = ordered_bootstrap_calls(v) /\ Len(calls) = 2
      BY <1>3, SesBoot
  <2>2. \A n \in 1..2 : n = 1 \/ n = 2
      OBVIOUS
  <2>3. \A n \in 1..2 : calls[n] \in {"capabilities", "history"}
      BY <2>2
  <2>4. \A op \in {"capabilities", "history"} : op \in SesBootOps /\ minimum_version(op) = 0 /\ op # "agent_catalog"
      BY SesNeeds DEF SesBootOps, SesPollOps
  <2> HIDE DEF calls
  <2>5. \A n \in 1..2 : /\ calls[n] \in SesBootOps
                        /\ minimum_version(calls[n]) \in Nat /\ v >= minimum_version(calls[n])
                        /\ calls[n] = "agent_catalog" <=> (v >= 4 /\ n = 2)
      BY <1>1, <1>3, <2>3, <2>4
  <2> QED BY <1>2, <2>1, <2>5
<1>4. CASE v \in 2..3
  <2> DEFINE calls == <<"capabilities", "measurement_catalog", "history">>
  <2>1. calls = ordered_bootstrap_calls(v) /\ Len(calls) = 3
      BY <1>4, SesBoot
  <2>2. \A n \in 1..3 : n = 1 \/ n = 2 \/ n = 3
      OBVIOUS
  <2>3. \A n \in 1..3 : calls[n] \in {"capabilities", "history", "measurement_catalog"}
      BY <2>2
  <2>4. \A op \in {"capabilities", "history", "measurement_catalog"} :
           op \in SesBootOps /\ minimum_version(op) \in 0..2 /\ op # "agent_catalog"
      BY SesNeeds DEF SesBootOps, SesPollOps
  <2> HIDE DEF calls
  <2>5. \A n \in 1..3 : /\ calls[n] \in SesBootOps
                        /\ minimum_version(calls[n]) \in Nat /\ v >= minimum_version(calls[n])
                        /\ calls[n] = "agent_catalog" <=> (v >= 4 /\ n = 3)
      BY <1>1, <1>4, <2>3, <2>4
  <2> QED BY <1>2, <2>1, <2>5
<1>5. CASE v \in 4..9
  <2> DEFINE calls == <<"capabilities", "measurement_catalog", "history", "agent_catalog">>
  <2>1. calls = ordered_bootstrap_calls(v) /\ Len(calls) = 4
      BY <1>5, SesBoot
  <2>2. \A n \in 1..3 : n = 1 \/ n = 2 \/ n = 3
      OBVIOUS
  <2>3. calls[4] = "agent_catalog" /\ \A n \in 1..3 : calls[n] \in {"capabilities", "history", "measurement_catalog"}
      BY <2>2
  <2>4. \A op \in {"capabilities", "history", "measurement_catalog"} :
           op \in SesBootOps /\ minimum_version(op) \in 0..2 /\ op # "agent_catalog"
      BY SesNeeds DEF SesBootOps, SesPollOps
  <2>5. "agent_catalog" \in SesBootOps /\ minimum_version("agent_catalog") = 4
      BY SesNeeds DEF SesBootOps, SesPollOps
  <2> HIDE DEF calls
  <2>6. \A n \in 1..4 : n = 4 \/ n \in 1..3
      OBVIOUS
  <2>7. \A n \in 1..4 : /\ calls[n] \in SesBootOps
                        /\ minimum_version(calls[n]) \in Nat /\ v >= minimum_version(calls[n])
                        /\ calls[n] = "agent_catalog" <=> (v >= 4 /\ n = 4)
      BY <1>1, <1>5, <2>3, <2>4, <2>5, <2>6
  <2> QED BY <1>2, <2>1, <2>7
<1>6. CASE v >= 10
  <2> DEFINE calls == <<"capabilities", "benchmark_catalog", "measurement_catalog", "history", "agent_catalog">>
  <2>1. calls = ordered_bootstrap_calls(v) /\ Len(calls) = 5
      BY <1>6, SesBoot
  <2>2. \A n \in 1..4 : n = 1 \/ n = 2 \/ n = 3 \/ n = 4
      OBVIOUS
  <2>3. /\ calls[5] = "agent_catalog"
        /\ \A n \in 1..4 : calls[n] \in {"capabilities", "history", "measurement_catalog", "benchmark_catalog"}
      BY <2>2
  <2>4. \A op \in {"capabilities", "history", "measurement_catalog", "benchmark_catalog"} :
           op \in SesBootOps /\ minimum_version(op) \in 0..10 /\ op # "agent_catalog"
      BY SesNeeds DEF SesBootOps, SesPollOps
  <2>5. "agent_catalog" \in SesBootOps /\ minimum_version("agent_catalog") = 4
      BY SesNeeds DEF SesBootOps, SesPollOps
  <2> HIDE DEF calls
  <2>6. \A n \in 1..5 : n = 5 \/ n \in 1..4
      OBVIOUS
  <2>7. \A n \in 1..5 : /\ calls[n] \in SesBootOps
                        /\ minimum_version(calls[n]) \in Nat /\ v >= minimum_version(calls[n])
                        /\ calls[n] = "agent_catalog" <=> (v >= 4 /\ n = 5)
      BY <1>1, <1>6, <2>3, <2>4, <2>5, <2>6
  <2> QED BY <1>2, <2>1, <2>7
<1> QED BY <1>1, <1>3, <1>4, <1>5, <1>6

LEMMA SesAgents ==
    ASSUME NEW v \in Nat, NEW copy, copy.agents \in SesCatalogs \cup {SesNone}
    PROVE  /\ PollAgents(v, copy) \in Seq(BOOLEAN) /\ Len(PollAgents(v, copy)) \in 0..32
           /\ DOMAIN PollAgents(v, copy) = 1..Len(PollAgents(v, copy))
           /\ v < 5 => Len(PollAgents(v, copy)) = 0
           /\ v >= 5 /\ copy.agents # SesNone => PollAgents(v, copy) = copy.agents
<1>1. CASE v >= 5 /\ copy.agents # SesNone
  <2>1. copy.agents \in SesCatalogs /\ PollAgents(v, copy) = copy.agents
      BY <1>1 DEF PollAgents
  <2>2. copy.agents \in Seq(BOOLEAN) /\ Len(copy.agents) \in 1..32
      BY <2>1, SesAssumption DEF MAX_CATALOG_AGENTS
  <2> QED BY <1>1, <2>1, <2>2
<1>2. CASE ~(v >= 5 /\ copy.agents # SesNone)
  <2>1. PollAgents(v, copy) = <<>>
      BY <1>2 DEF PollAgents
  <2> QED BY <1>2, <2>1
<1> QED BY <1>1, <1>2

(* A request of a poll. *)
SesIsPoll(v, copy, n, r) ==
    /\ \/ r.op \in SesPollOps /\ r.id = n + 1 /\ r.id < 1000
       \/ r.op = "auth_status" /\ r.id = 1104
    /\ minimum_version(r.op) \in Nat /\ v >= minimum_version(r.op)
    /\ r.arg = IF r.op = "agent_status" THEN n - PollBoot(v)
               ELSE IF r.op = "auth_status" THEN copy.provider ELSE SesNone
    /\ r.op = "agent_status" <=> n - PollBoot(v) \in DOMAIN PollAgents(v, copy)
    /\ r.op = "agent_catalog" <=> (v >= 4 /\ n = PollBoot(v))

LEMMA SesPollRequest ==
    ASSUME NEW v \in SUPPORTED_CONTROL_VERSIONS, NEW copy, copy.agents \in SesCatalogs \cup {SesNone},
           NEW n \in Nat \ {0}, n <= PollLength(v, copy)
    PROVE  SesIsPoll(v, copy, n, PollRequest(v, copy, n))
<1>1. v \in Nat /\ v <= 15
    BY DEF SUPPORTED_CONTROL_VERSIONS
<1>2. PICK boot \in 2..5 : boot = PollBoot(v)
    BY SesBootCalls
<1>3. PICK k \in 0..32 : k = Len(PollAgents(v, copy))
    BY <1>1, SesAgents
<1>4. DOMAIN PollAgents(v, copy) = 1..k /\ (v < 5 => k = 0)
    BY <1>1, <1>3, SesAgents
<1>5. PollReads(v, copy) = boot + k + (IF v >= 7 THEN 3 ELSE 0)
    BY <1>2, <1>3 DEF PollReads, setup_calls
<1>6. PICK reads \in Nat : reads = PollReads(v, copy) /\ reads >= boot + k /\ reads <= boot + k + 3
                           /\ (reads > boot + k => v >= 7)
    BY <1>1, <1>5
<1>7. n <= reads \/ v >= 6
    BY <1>1, <1>6 DEF PollLength
<1>8. PollRequest(v, copy, n) =
         CASE n <= boot -> Request(ordered_bootstrap_calls(v)[n], n + 1, SesNone)
           [] n \in boot + 1..boot + k -> Request("agent_status", n + 1, n - boot)
           [] n \in boot + k + 1..reads -> Request(setup_calls[n - (boot + k)], n + 1, SesNone)
           [] OTHER -> Request("auth_status", Late(104), copy.provider)
    BY <1>2, <1>3, <1>6, Zenon DEF PollRequest
<1>9. CASE n <= boot
  <2>1. ~(n \in boot + 1..boot + k) /\ ~(n \in boot + k + 1..reads) /\ n \in 1..boot
      BY <1>9
  <2>2. PollRequest(v, copy, n) = Request(ordered_bootstrap_calls(v)[n], n + 1, SesNone)
      BY <1>8, <1>9, <2>1, Zenon
  <2>3. PICK op : op = ordered_bootstrap_calls(v)[n]
      OBVIOUS
  <2>4. op \in SesBootOps /\ minimum_version(op) \in Nat /\ v >= minimum_version(op)
        /\ (op = "agent_catalog" <=> (v >= 4 /\ n = PollBoot(v)))
      BY <1>2, <2>1, <2>3, SesBootCalls
  <2>5. op # "agent_status" /\ op # "auth_status" /\ op \in SesPollOps
      BY <2>4 DEF SesBootOps, SesPollOps
  <2>6. ~(n - PollBoot(v) \in DOMAIN PollAgents(v, copy)) /\ n + 1 < 1000
      BY <1>2, <1>4, <1>9
  <2>7. SesIsPoll(v, copy, n, Request(op, n + 1, SesNone))
      BY <2>4, <2>5, <2>6 DEF SesIsPoll, Request
  <2> QED BY <2>2, <2>3, <2>7
<1>10. CASE n \in boot + 1..boot + k
  <2>1. ~(n <= boot) /\ ~(n \in boot + k + 1..reads)
      BY <1>10
  <2>2. PollRequest(v, copy, n) = Request("agent_status", n + 1, n - boot)
      BY <1>8, <1>10, <2>1, Zenon
  <2>3. "agent_status" \in SesPollOps /\ minimum_version("agent_status") = 5
      BY SesNeeds DEF SesPollOps
  <2>4. n - PollBoot(v) \in DOMAIN PollAgents(v, copy) /\ n + 1 < 1000 /\ n # boot /\ v >= 5
      BY <1>1, <1>2, <1>4, <1>10
  <2>5. SesIsPoll(v, copy, n, Request("agent_status", n + 1, n - boot))
      BY <1>1, <1>2, <2>3, <2>4 DEF SesIsPoll, Request
  <2> QED BY <2>2, <2>5
<1>11. CASE n \in boot + k + 1..reads
  <2>1. ~(n <= boot) /\ ~(n \in boot + 1..boot + k)
      BY <1>11
  <2>2. PollRequest(v, copy, n) = Request(setup_calls[n - (boot + k)], n + 1, SesNone)
      BY <1>8, <1>11, <2>1, Zenon
  <2>3. n - (boot + k) = 1 \/ n - (boot + k) = 2 \/ n - (boot + k) = 3
      BY <1>6, <1>11
  <2>4. PICK op \in {"provider_catalog", "configuration_status", "campaign_status"} : op = setup_calls[n - (boot + k)]
      BY <2>3 DEF setup_calls
  <2>5. op \in SesPollOps /\ minimum_version(op) = 7
      BY SesNeeds DEF SesPollOps
  <2>6. ~(n - PollBoot(v) \in DOMAIN PollAgents(v, copy)) /\ n + 1 < 1000 /\ n # boot /\ v >= 7
      BY <1>1, <1>2, <1>4, <1>6, <1>11
  <2>7. SesIsPoll(v, copy, n, Request(op, n + 1, SesNone))
      BY <1>1, <1>2, <2>5, <2>6 DEF SesIsPoll, Request
  <2> QED BY <2>2, <2>4, <2>7
<1>12. CASE n > reads
  <2>1. ~(n <= boot) /\ ~(n \in boot + 1..boot + k) /\ ~(n \in boot + k + 1..reads)
      BY <1>6, <1>12
  <2>2. PollRequest(v, copy, n) = Request("auth_status", Late(104), copy.provider)
      BY <1>8, <2>1, Zenon
  <2>3. minimum_version("auth_status") = 6
      BY SesNeeds
  <2>4. ~(n - PollBoot(v) \in DOMAIN PollAgents(v, copy)) /\ n # boot /\ v >= 6
      BY <1>1, <1>2, <1>4, <1>6, <1>7, <1>12
  <2>5. Late(104) = 1104
      BY DEF Late
  <2>6. SesIsPoll(v, copy, n, Request("auth_status", Late(104), copy.provider))
      BY <1>1, <1>2, <2>3, <2>4, <2>5 DEF SesIsPoll, Request
  <2> QED BY <2>2, <2>6
<1>13. n <= boot \/ n \in boot + 1..boot + k \/ n \in boot + k + 1..reads \/ n > reads
    BY <1>6
<1> QED BY <1>9, <1>10, <1>11, <1>12, <1>13

(* The invariant.  Every answer to come is one that a request of this        *)
(* session could ask for; the copy a poll works on has, for every available  *)
(* agent it has passed, the status of an available agent.                    *)
SesValues == SesCatalogs \cup Nat \cup SesProviders \cup {SesNone, SesInvalid}
SesNames == SesProviders \cup {SesNone}

SesAnswerOK(v, a) ==
    /\ \/ a.op \in SesPollOps /\ a.id < 1000
       \/ <<a.op, a.id>> \in SesLatePairs
    /\ a.op = "agent_catalog" => a.value \in SesCatalogs
    /\ a.op = "agent_status" => a.value = a.id - 1 - PollBoot(v) /\ a.value \in Nat
    /\ a.op = "provider_catalog" => a.value \in 0..2
    /\ a.op \in {"configuration_status", "configuration_apply", "auth_status", "auth_helper_invoke"}
          => a.value \in SesNames

SesOutcomes == {"success", "failure", "malformed", "unavailable"}

SesAnswers(v) ==
    {a \in [id : Nat, op : SesOperations, outcome : SesOutcomes, value : SesValues] : SesAnswerOK(v, a)}

SesStates ==
    [phase : {"start", "up", "ended"}, version : SesVersions \cup {0},
     entry : SesEntries \cup {"poll", SesNone}, arg : SesProviders \cup {SesInvalid, SesNone},
     at : Nat \ {0}, asked : BOOLEAN, copy : SesProjection, calls : 0..SesCalls, refused : BOOLEAN]

SesRunners == [agents : SesCatalogs, provider : SesNames, catalog : 1..2]

SesLast(p) == p.last # SesNone => p.last.asked = p.last.answered

SesShows(p) == p.agent \in DOMAIN p.agents /\ p.agents[p.agent]

(* Every available agent of the catalog before a place has been passed. *)
SesPassed(v, p, at) ==
    v >= 5 /\ at > PollBoot(v) =>
        /\ p.agents # SesNone
        /\ \A i \in DOMAIN p.agents : p.agents[i] /\ PollBoot(v) + i < at => SesShows(p)

SesAll(v, p) == v >= 5 /\ p.agents # SesNone => \A i \in DOMAIN p.agents : p.agents[i] => SesShows(p)

SesUp(s) == s.phase = "up" /\ s.entry # SesNone

SesCallInv(s) ==
    /\ s.phase # "up" => s.entry = SesNone
    /\ s.version \in SUPPORTED_CONTROL_VERSIONS
    /\ ~s.refused
    /\ SesLast(s.copy)
    /\ SesUp(s) /\ s.entry # "poll" => SesAll(s.version, s.copy) /\ s.version >= SessionEntry[s.entry].gate
    /\ SesUp(s) /\ s.entry = "poll" => SesPassed(s.version, s.copy, s.at)
    /\ SesUp(s) /\ s.asked => s.at <= Length(s) /\ ~PollSkips(s)

SesInv ==
    /\ ses \in SesStates /\ sesShown \in SesProjection /\ sesRunner \in SesRunners
    /\ sesWire \in Seq(SesAnswers(ses.version))
    /\ ses.phase # "up" => sesWire = <<>> /\ sesShown.agents = SesNone
    /\ SesCallInv(ses)
    /\ SesLast(sesShown) /\ SesAll(ses.version, sesShown)

(* The request a call has reached. *)
SesRequest(s, r) ==
    /\ r.op \in SesOperations /\ r.id \in Nat /\ r.arg \in SesValues
    /\ \/ r.op \in SesPollOps /\ r.id < 1000
       \/ <<r.op, r.id>> \in SesLatePairs
    /\ minimum_version(r.op) \in Nat /\ s.version >= minimum_version(r.op)
    /\ r.op = "agent_status" => r.arg = r.id - 1 - PollBoot(s.version) /\ r.arg \in Nat
    /\ r.op # "agent_status" => r.arg \in SesNames \cup {SesInvalid}
    /\ s.entry = "poll" => SesIsPoll(s.version, s.copy, s.at, r)
    /\ s.entry # "poll" => r.op \notin {"agent_status", "agent_catalog"}

LEMMA SesReaches ==
    ASSUME NEW s \in SesStates, SesCallInv(s), SesUp(s), s.at <= Length(s)
    PROVE  SesRequest(s, Script(s))
<1>1. s.version \in SUPPORTED_CONTROL_VERSIONS /\ s.version \in Nat
    BY DEF SesCallInv, SUPPORTED_CONTROL_VERSIONS
<1>2. CASE s.entry = "poll"
  <2>1. Script(s) = PollRequest(s.version, s.copy, s.at) /\ Length(s) = PollLength(s.version, s.copy)
      BY <1>2 DEF Script, Length
  <2>2. s.copy.agents \in SesCatalogs \cup {SesNone} /\ s.copy.provider \in SesNames /\ s.at \in Nat \ {0}
      BY DEF SesStates, SesProjection, SesNames
  <2>3. PICK r : r = Script(s)
      OBVIOUS
  <2>4. SesIsPoll(s.version, s.copy, s.at, r)
      BY <1>1, <2>1, <2>2, <2>3, SesPollRequest
  <2>5. PollBoot(s.version) \in 2..5
      BY <1>1, SesBootCalls
  <2>6. DOMAIN PollAgents(s.version, s.copy) = 1..Len(PollAgents(s.version, s.copy))
        /\ Len(PollAgents(s.version, s.copy)) \in Nat
      BY <1>1, <2>2, SesAgents
  <2>7. r.id \in Nat /\ r.op \in SesOperations /\ ((r.op \in SesPollOps /\ r.id < 1000) \/ <<r.op, r.id>> \in SesLatePairs)
    <3>1. CASE r.op \in SesPollOps /\ r.id = s.at + 1 /\ r.id < 1000
        BY <2>2, <3>1 DEF SesOperations, SesPollOps
    <3>2. CASE r.op = "auth_status" /\ r.id = 1104
        BY <3>2 DEF SesLatePairs, SesOperations
    <3> QED BY <2>4, <3>1, <3>2 DEF SesIsPoll
  <2>8. r.op = "agent_status" => r.arg = r.id - 1 - PollBoot(s.version) /\ r.arg \in Nat
      BY <2>2, <2>4, <2>5, <2>6 DEF SesIsPoll
  <2>9. r.op # "agent_status" => r.arg \in SesNames
      BY <2>2, <2>4 DEF SesIsPoll, SesNames
  <2>10. r.arg \in SesValues
      BY <2>8, <2>9 DEF SesValues, SesNames
  <2> QED BY <1>2, <2>3, <2>4, <2>7, <2>8, <2>9, <2>10 DEF SesRequest, SesIsPoll
<1>3. CASE s.entry # "poll"
  <2>1. s.entry \in SesEntries /\ s.entry \in DOMAIN SessionEntry
      BY <1>3, SesAssumption DEF SesStates, SesUp
  <2>2. PICK x : x = SessionEntry[s.entry]
      OBVIOUS
  <2>3. SesGood(x) /\ s.version >= x.gate
      BY <1>3, <2>1, <2>2, SesTable DEF SesGoodTable, SesCallInv
  <2>4. Script(s) = Request(x.op, x.id, s.arg)
      BY <1>3, <2>2 DEF Script
  <2>5. PICK r : r = Script(s)
      OBVIOUS
  <2>6. r.op = x.op /\ r.id = x.id /\ r.arg = s.arg
      BY <2>4, <2>5 DEF Request
  <2>7. r.arg \in SesNames \cup {SesInvalid} /\ r.arg \in SesValues
      BY <2>6 DEF SesStates, SesNames, SesValues
  <2>8. <<r.op, r.id>> \in SesLatePairs
      BY <2>3, <2>6 DEF SesGood
  <2>9. r.op \in SesOperations /\ r.id \in Nat /\ r.op \notin {"agent_status", "agent_catalog"}
      BY <2>1, <2>2, <2>6, <2>8, SesLateBounds DEF SesOperations, AgentCalls
  <2>10. minimum_version(r.op) \in Nat /\ s.version >= minimum_version(r.op)
      BY <1>1, <2>3, <2>6 DEF SesGood
  <2> QED BY <1>3, <2>5, <2>7, <2>8, <2>9, <2>10 DEF SesRequest
<1> QED BY <1>2, <1>3

(* What the runner answers is an answer that may be on the wire. *)
LEMMA SesAnswered ==
    ASSUME NEW s, NEW r, SesRequest(s, r), r.arg # SesInvalid, sesRunner \in SesRunners,
           NEW a \in RunnerAnswers(r)
    PROVE  a \in SesAnswers(s.version)
<1>1. PICK o \in RunnerOutcomes(r.op) : a = [id |-> r.id, op |-> r.op, outcome |-> o, value |-> RunnerValue(r)]
    BY DEF RunnerAnswers
<1>2. o \in SesOutcomes
    BY DEF RunnerOutcomes, SesOutcomes
<1>3. PICK x : x = RunnerValue(r)
    OBVIOUS
<1>4. /\ r.op = "agent_catalog" => x = sesRunner.agents
      /\ r.op \in {"provider_catalog", "campaign_estimate"} => x = sesRunner.catalog
      /\ r.op = "configuration_status" => x = sesRunner.provider
      /\ r.op \notin {"agent_catalog", "provider_catalog", "campaign_estimate", "configuration_status"} => x = r.arg
    BY <1>3, Zenon DEF RunnerValue
<1>5. sesRunner.agents \in SesCatalogs /\ sesRunner.catalog \in 1..2 /\ sesRunner.provider \in SesNames
    BY DEF SesRunners
<1>6. x \in SesValues
    BY <1>4, <1>5 DEF SesValues, SesNames, SesRequest
<1>7. r.op # "agent_status" => r.arg \in SesNames
    BY DEF SesRequest
<1>8. a.id = r.id /\ a.op = r.op /\ a.value = x
    BY <1>1, <1>3
<1>9. SesAnswerOK(s.version, a)
    BY <1>4, <1>5, <1>7, <1>8 DEF SesAnswerOK, SesRequest
<1>10. a \in [id : Nat, op : SesOperations, outcome : SesOutcomes, value : SesValues]
    BY <1>1, <1>2, <1>3, <1>6 DEF SesRequest
<1> QED BY <1>9, <1>10 DEF SesAnswers

(* A success that is taken is of the operation asked. *)
LEMMA SesSameOperation ==
    ASSUME NEW s, NEW r, SesRequest(s, r), NEW a \in SesAnswers(s.version),
           a.outcome = "success", validate_for(r, a)
    PROVE  a.op = r.op /\ a.id = r.id
<1>1. a.id = r.id /\ Kind(a.op) = Kind(r.op) /\ a.id \in Nat
    BY DEF validate_for, SesAnswers
<1>2. (a.op \in SesPollOps /\ a.id < 1000) \/ <<a.op, a.id>> \in SesLatePairs
    BY DEF SesAnswers, SesAnswerOK
<1>3. (r.op \in SesPollOps /\ r.id < 1000) \/ <<r.op, r.id>> \in SesLatePairs
    BY DEF SesRequest
<1>4. CASE a.id < 1000
  <2>1. a.op \in SesPollOps /\ r.op \in SesPollOps
      BY <1>1, <1>2, <1>3, <1>4, SesLateBounds
  <2> QED BY <1>1, <2>1, SesPollKinds
<1>5. CASE ~(a.id < 1000)
  <2>1. <<a.op, a.id>> \in SesLatePairs /\ <<r.op, r.id>> \in SesLatePairs
      BY <1>1, <1>2, <1>3, <1>5
  <2> QED BY <1>1, <2>1, SesLateKinds
<1> QED BY <1>4, <1>5

(* What a success changes. *)
LEMMA SesProjects ==
    ASSUME NEW p \in SesProjection, SesLast(p), NEW v, NEW a \in SesAnswers(v), a.outcome = "success",
           NEW r, r.op = a.op, NEW c \in project(p, r, a)
    PROVE  /\ c \in SesProjection /\ SesLast(c)
           /\ c.agents = IF r.op = "agent_catalog" THEN a.value ELSE p.agents
           /\ c.agent = IF r.op = "agent_status" THEN a.value ELSE p.agent
           /\ r.op = "agent_catalog" => a.value \in SesCatalogs
<1>1. a.op \in SesOperations /\ SesAnswerOK(v, a)
    BY DEF SesAnswers
<1>2. r.op \in AgentCalls => r.op = "agent_status"
  <2>1. CASE a.op \in SesPollOps
      BY <2>1 DEF SesPollOps, AgentCalls
  <2>2. CASE <<a.op, a.id>> \in SesLatePairs
      BY <2>2, SesLateBounds
  <2> QED BY <1>1, <2>1, <2>2 DEF SesAnswerOK
<1> DEFINE m == [asked |-> r.op, answered |-> a.op]
           q == [p EXCEPT !.last = m]
<1>3. \/ r.op = "agent_catalog" /\ c = [q EXCEPT !.agents = a.value]
      \/ r.op \in AgentCalls /\ c = [q EXCEPT !.agent = a.value]
      \/ r.op = "provider_catalog" /\ c = [q EXCEPT !.catalog = a.value]
      \/ r.op \in {"configuration_status", "configuration_apply"} /\ c = [q EXCEPT !.provider = a.value]
      \/ r.op \in {"auth_status", "auth_helper_invoke"}
           /\ c = [q EXCEPT !.auth = [of |-> a.value, unavailable |-> FALSE]]
      \/ r.op # "agent_catalog" /\ r.op \notin AgentCalls /\ c = q
    BY Zenon DEF project
<1>4. m \in [asked : SesOperations, answered : SesOperations] /\ m.asked = m.answered
    BY <1>1
<1> HIDE DEF m
<1>5. /\ q \in SesProjection /\ SesLast(q) /\ q.agents = p.agents /\ q.agent = p.agent
      /\ DOMAIN q = {"runner", "agents", "agent", "catalog", "provider", "auth", "last"}
    BY <1>4 DEF SesProjection, SesLast
<1> HIDE DEF q
<1>6. CASE r.op = "agent_catalog" /\ c = [q EXCEPT !.agents = a.value]
  <2>1. a.value \in SesCatalogs
      BY <1>1, <1>6 DEF SesAnswerOK
  <2> QED BY <1>5, <1>6, <2>1 DEF SesProjection, SesLast
<1>7. CASE r.op \in AgentCalls /\ c = [q EXCEPT !.agent = a.value]
  <2>1. r.op = "agent_status" /\ a.value \in Nat
      BY <1>1, <1>2, <1>7 DEF SesAnswerOK
  <2> QED BY <1>5, <1>7, <2>1 DEF SesProjection, SesLast
<1>8. CASE r.op = "provider_catalog" /\ c = [q EXCEPT !.catalog = a.value]
  <2>1. a.value \in 0..2
      BY <1>1, <1>8 DEF SesAnswerOK
  <2> QED BY <1>5, <1>8, <2>1 DEF SesProjection, SesLast
<1>9. CASE r.op \in {"configuration_status", "configuration_apply"} /\ c = [q EXCEPT !.provider = a.value]
  <2>1. a.value \in SesProviders \cup {SesNone}
      BY <1>1, <1>9 DEF SesAnswerOK, SesNames
  <2> QED BY <1>5, <1>9, <2>1 DEF SesProjection, SesLast
<1>10. CASE r.op \in {"auth_status", "auth_helper_invoke"}
              /\ c = [q EXCEPT !.auth = [of |-> a.value, unavailable |-> FALSE]]
  <2>1. a.value \in SesProviders \cup {SesNone}
      BY <1>1, <1>10 DEF SesAnswerOK, SesNames
  <2>2. [of |-> a.value, unavailable |-> FALSE] \in [of : SesProviders \cup {SesNone}, unavailable : BOOLEAN]
      BY <2>1
  <2> QED BY <1>5, <1>10, <2>2 DEF SesProjection, SesLast
<1>11. CASE r.op # "agent_catalog" /\ r.op \notin AgentCalls /\ c = q
    BY <1>5, <1>11 DEF AgentCalls
<1> QED BY <1>3, <1>6, <1>7, <1>8, <1>9, <1>10, <1>11

(* Any answer a call takes. *)
LEMMA SesTaken ==
    ASSUME NEW s \in SesStates, SesCallInv(s), NEW r, SesRequest(s, r), NEW a \in SesAnswers(s.version),
           validate_for(r, a), NEW c \in Taken(s, r, a)
    PROVE  /\ c \in SesProjection /\ SesLast(c)
           /\ c.agents = IF r.op = "agent_catalog" THEN a.value ELSE s.copy.agents
           /\ c.agent = IF r.op = "agent_status" THEN a.value ELSE s.copy.agent
           /\ r.op = "agent_catalog" => a.value \in SesCatalogs
           /\ r.op = "agent_status" => a.value = r.arg
<1>1. s.copy \in SesProjection /\ SesLast(s.copy)
    BY DEF SesStates, SesCallInv
<1>2. CASE a.outcome = "success"
  <2>1. a.op = r.op /\ a.id = r.id
      BY <1>2, SesSameOperation
  <2>2. c \in project(s.copy, r, a)
      BY <1>2 DEF Taken
  <2>3. r.op = "agent_status" => a.value = r.arg
      BY <2>1 DEF SesAnswers, SesAnswerOK, SesRequest
  <2> QED BY <1>1, <1>2, <2>1, <2>2, <2>3, SesProjects
<1>3. CASE a.outcome # "success"
  <2>1. r.op = "auth_status" /\ (c = mark_auth_unavailable(s.copy) \/ c \in project(s.copy, r, a))
      BY <1>3 DEF Taken
  <2>2. c = mark_auth_unavailable(s.copy) \/ c = s.copy
      BY <1>3, <2>1 DEF project
  <2>3. /\ mark_auth_unavailable(s.copy) \in SesProjection /\ SesLast(mark_auth_unavailable(s.copy))
        /\ mark_auth_unavailable(s.copy).agents = s.copy.agents
        /\ mark_auth_unavailable(s.copy).agent = s.copy.agent
      BY <1>1 DEF mark_auth_unavailable, SesProjection, SesLast
  <2> QED BY <1>1, <2>1, <2>2, <2>3
<1> QED BY <1>2, <1>3

(* The place a poll is at, once the bootstrap is over. *)
LEMMA SesPlace ==
    ASSUME NEW s \in SesStates, SesCallInv(s), s.entry = "poll"
    PROVE  /\ s.version \in Nat /\ PollBoot(s.version) \in 2..5 /\ s.at \in Nat /\ s.at >= 1
           /\ s.copy.agents \in SesCatalogs \cup {SesNone}
           /\ s.copy.agents \in SesCatalogs =>
                 s.copy.agents \in Seq(BOOLEAN) /\ Len(s.copy.agents) \in 1..32
           /\ s.version >= 5 /\ s.copy.agents # SesNone => PollAgents(s.version, s.copy) = s.copy.agents
           /\ ~(s.version >= 5 /\ s.copy.agents # SesNone) => PollAgents(s.version, s.copy) = <<>>
<1>1. s.version \in SUPPORTED_CONTROL_VERSIONS /\ s.version \in Nat
    BY DEF SesCallInv, SUPPORTED_CONTROL_VERSIONS
<1>2. s.copy.agents \in SesCatalogs \cup {SesNone} /\ s.at \in Nat \ {0}
    BY DEF SesStates, SesProjection
<1>3. s.copy.agents \in SesCatalogs => s.copy.agents \in Seq(BOOLEAN) /\ Len(s.copy.agents) \in 1..32
    BY SesAssumption DEF MAX_CATALOG_AGENTS
<1>4. PollBoot(s.version) \in 2..5
    BY <1>1, SesBootCalls
<1> QED BY <1>1, <1>2, <1>3, <1>4 DEF PollAgents

SesMoved(s, c) == [s EXCEPT !.copy = c, !.at = @ + 1, !.asked = FALSE]

LEMMA SesMovedFields ==
    ASSUME NEW s \in SesStates, NEW c \in SesProjection
    PROVE  /\ SesMoved(s, c) \in SesStates
           /\ SesMoved(s, c).copy = c /\ SesMoved(s, c).at = s.at + 1 /\ SesMoved(s, c).asked = FALSE
           /\ SesMoved(s, c).phase = s.phase /\ SesMoved(s, c).entry = s.entry
           /\ SesMoved(s, c).version = s.version /\ SesMoved(s, c).refused = s.refused
<1>1. PICK n \in Nat \ {0} : n = s.at + 1
    BY DEF SesStates
<1>2. SesMoved(s, c) = [s EXCEPT !.copy = c, !.at = n, !.asked = FALSE]
    BY <1>1 DEF SesMoved
<1>3. [s EXCEPT !.copy = c, !.at = n, !.asked = FALSE] \in SesStates
    BY DEF SesStates
<1> QED BY <1>1, <1>2, <1>3 DEF SesStates

(* A poll that takes an answer, or passes an unavailable agent. *)
LEMMA SesPasses ==
    ASSUME NEW s \in SesStates, SesCallInv(s), SesUp(s), s.entry = "poll", NEW r, SesRequest(s, r), ~PollSkips(s),
           NEW c, r.op = "agent_catalog" => c.agents \in SesCatalogs,
           r.op # "agent_catalog" => c.agents = s.copy.agents,
           c.agent = IF r.op = "agent_status" THEN r.arg ELSE s.copy.agent
    PROVE  SesPassed(s.version, c, s.at + 1)
<1> DEFINE v == s.version
           boot == PollBoot(s.version)
<1>1. SesIsPoll(v, s.copy, s.at, r) /\ SesPassed(v, s.copy, s.at)
    BY DEF SesRequest, SesCallInv
<1>2. v \in Nat /\ boot \in 2..5 /\ s.at \in Nat /\ s.at >= 1
    BY SesPlace
<1>3. SUFFICES ASSUME v >= 5, s.at + 1 > boot
               PROVE  /\ c.agents # SesNone
                      /\ \A i \in DOMAIN c.agents : c.agents[i] /\ boot + i < s.at + 1 => SesShows(c)
    BY DEF SesPassed
<1>4. CASE s.at = boot
  <2>1. r.op = "agent_catalog"
      BY <1>1, <1>2, <1>3, <1>4 DEF SesIsPoll
  <2>2. c.agents \in SesCatalogs
      BY <2>1
  <2>3. c.agents \in Seq(BOOLEAN) /\ c.agents # SesNone
      BY <2>2, SesAssumption
  <2>4. \A i \in DOMAIN c.agents : i \in Nat /\ i >= 1
      BY <2>3
  <2> QED BY <1>2, <1>4, <2>3, <2>4
<1>5. CASE s.at > boot
  <2>1. s.copy.agents # SesNone /\ s.copy.agents \in SesCatalogs
      BY <1>1, <1>3, <1>5, SesPlace DEF SesPassed
  <2>2. r.op # "agent_catalog" /\ c.agents = s.copy.agents
      BY <1>1, <1>2, <1>5 DEF SesIsPoll
  <2>3. PollAgents(v, s.copy) = s.copy.agents /\ s.copy.agents \in Seq(BOOLEAN)
      BY <1>3, <2>1, SesPlace
  <2>4. \A i \in DOMAIN s.copy.agents : s.copy.agents[i] /\ boot + i < s.at => SesShows(s.copy)
      BY <1>1, <1>3, <1>5 DEF SesPassed
  <2>5. CASE r.op = "agent_status"
    <3>1. s.at - boot \in DOMAIN s.copy.agents /\ r.arg = s.at - boot
        BY <1>1, <2>3, <2>5 DEF SesIsPoll
    <3>2. s.copy.agents[s.at - boot]
        BY <2>3, <3>1 DEF PollSkips
    <3>3. SesShows(c)
        BY <2>2, <2>5, <3>1, <3>2 DEF SesShows
    <3> QED BY <2>1, <2>2, <3>3
  <2>6. CASE r.op # "agent_status"
    <3>1. s.at - boot \notin DOMAIN s.copy.agents
        BY <1>1, <2>3, <2>6 DEF SesIsPoll
    <3>2. ASSUME NEW i \in DOMAIN s.copy.agents, boot + i < s.at + 1 PROVE boot + i < s.at
        BY <1>2, <2>3, <3>1, <3>2
    <3>3. SesShows(s.copy) => SesShows(c)
        BY <2>2, <2>6 DEF SesShows
    <3> QED BY <2>1, <2>2, <2>4, <3>2, <3>3
  <2> QED BY <2>5, <2>6
<1> QED BY <1>2, <1>3, <1>4, <1>5

LEMMA SesReadMoves ==
    ASSUME NEW s \in SesStates, SesCallInv(s), SesUp(s), s.asked, NEW a \in SesAnswers(s.version),
           validate_for(Script(s), a), NEW c \in Taken(s, Script(s), a)
    PROVE  SesMoved(s, c) \in SesStates /\ SesCallInv(SesMoved(s, c))
<1>1. s.at <= Length(s) /\ ~PollSkips(s)
    BY DEF SesCallInv
<1>2. PICK r : r = Script(s)
    OBVIOUS
<1>3. SesRequest(s, r)
    BY <1>1, <1>2, SesReaches
<1>4. /\ c \in SesProjection /\ SesLast(c)
      /\ c.agents = IF r.op = "agent_catalog" THEN a.value ELSE s.copy.agents
      /\ c.agent = IF r.op = "agent_status" THEN a.value ELSE s.copy.agent
      /\ r.op = "agent_catalog" => a.value \in SesCatalogs
      /\ r.op = "agent_status" => a.value = r.arg
    BY <1>2, <1>3, SesTaken
<1>5. CASE s.entry = "poll"
  <2>1. SesPassed(s.version, c, s.at + 1)
      BY <1>1, <1>3, <1>4, <1>5, SesPasses
  <2> QED BY <1>4, <1>5, <2>1, SesMovedFields DEF SesCallInv, SesUp
<1>6. CASE s.entry # "poll"
  <2>1. c.agents = s.copy.agents /\ c.agent = s.copy.agent
      BY <1>3, <1>4, <1>6 DEF SesRequest
  <2>2. SesAll(s.version, c) /\ s.version >= SessionEntry[s.entry].gate
      BY <1>6, <2>1 DEF SesCallInv, SesAll, SesShows
  <2> QED BY <1>4, <1>6, <2>2, SesMovedFields DEF SesCallInv, SesUp
<1> QED BY <1>5, <1>6

LEMMA SesSkipMoves ==
    ASSUME NEW s \in SesStates, SesCallInv(s), SesUp(s), PollSkips(s)
    PROVE  SesPassed(s.version, s.copy, s.at + 1)
<1> DEFINE v == s.version
           boot == PollBoot(s.version)
<1>1. s.entry = "poll" /\ SesPassed(v, s.copy, s.at)
    BY DEF PollSkips, SesCallInv
<1>2. v \in Nat /\ boot \in 2..5 /\ s.at \in Nat
    BY <1>1, SesPlace
<1>3. s.copy.agents \in SesCatalogs /\ v >= 5 /\ s.copy.agents # SesNone
      /\ PollAgents(v, s.copy) = s.copy.agents /\ s.copy.agents \in Seq(BOOLEAN)
    BY <1>1, SesPlace DEF PollSkips
<1>4. s.at - boot \in DOMAIN s.copy.agents /\ ~s.copy.agents[s.at - boot]
    BY <1>3 DEF PollSkips
<1>5. s.at > boot
    BY <1>2, <1>3, <1>4
<1>6. \A i \in DOMAIN s.copy.agents : s.copy.agents[i] /\ boot + i < s.at => SesShows(s.copy)
    BY <1>1, <1>3, <1>5 DEF SesPassed
<1>7. ASSUME NEW i \in DOMAIN s.copy.agents, s.copy.agents[i], boot + i < s.at + 1 PROVE boot + i < s.at
    BY <1>2, <1>3, <1>4, <1>7
<1> QED BY <1>3, <1>6, <1>7 DEF SesPassed

LEMMA SesAbandons ==
    ASSUME NEW s \in SesStates, SesCallInv(s)
    PROVE  /\ NoProjection \in SesProjection /\ SesLast(NoProjection) /\ NoProjection.agents = SesNone
           /\ Abandoned(s) \in SesStates /\ SesCallInv(Abandoned(s))
           /\ Abandoned(s).phase = s.phase /\ Abandoned(s).version = s.version
<1>1. NoProjection \in SesProjection /\ SesLast(NoProjection) /\ NoProjection.agents = SesNone
    BY DEF NoProjection, NoAuth, SesProjection, SesLast
<1>2. /\ Abandoned(s) \in SesStates /\ Abandoned(s).entry = SesNone /\ Abandoned(s).copy = NoProjection
      /\ Abandoned(s).phase = s.phase /\ Abandoned(s).version = s.version /\ Abandoned(s).refused = s.refused
  <2> USE DEF Abandoned
  <2>1. PICK n \in Nat \ {0} : n = 1
      OBVIOUS
  <2>2. \A none \in SesProjection :
           [s EXCEPT !.entry = SesNone, !.at = n, !.asked = FALSE, !.copy = none, !.arg = SesNone] \in SesStates
      BY DEF SesStates
  <2>3. Abandoned(s) \in SesStates
      BY <1>1, <2>1, <2>2
  <2> QED BY <2>3 DEF SesStates
<1> QED BY <1>1, <1>2 DEF SesCallInv, SesUp

(* A call that is over shows its copy whole. *)
LEMMA SesCommits ==
    ASSUME NEW s \in SesStates, SesCallInv(s), SesUp(s), s.at > Length(s)
    PROVE  SesAll(s.version, s.copy)
<1>1. CASE s.entry # "poll"
    BY <1>1 DEF SesCallInv
<1>2. CASE s.entry = "poll"
  <2> DEFINE v == s.version
             boot == PollBoot(s.version)
  <2>1. v \in Nat /\ boot \in 2..5 /\ s.at \in Nat
      BY <1>2, SesPlace
  <2>2. SUFFICES ASSUME v >= 5, s.copy.agents # SesNone
                 PROVE  \A i \in DOMAIN s.copy.agents : s.copy.agents[i] => SesShows(s.copy)
      BY DEF SesAll
  <2>3. PollAgents(v, s.copy) = s.copy.agents /\ s.copy.agents \in Seq(BOOLEAN) /\ Len(s.copy.agents) \in 1..32
      BY <1>2, <2>2, SesPlace
  <2>4. s.at > boot + Len(s.copy.agents)
      BY <1>2, <2>1, <2>3 DEF Length, PollLength, PollReads, setup_calls
  <2>5. \A i \in DOMAIN s.copy.agents : boot + i < s.at
      BY <2>1, <2>3, <2>4
  <2>6. SesPassed(v, s.copy, s.at) /\ s.at > boot
      BY <1>2, <2>1, <2>3, <2>4 DEF SesCallInv
  <2> QED BY <2>2, <2>5, <2>6 DEF SesPassed
<1> QED BY <1>1, <1>2

LEMMA SesStart == SesInit => SesInv
<1> SUFFICES ASSUME SesInit PROVE SesInv
    OBVIOUS
<1>1. NoProjection \in SesProjection /\ SesLast(NoProjection) /\ NoProjection.agents = SesNone
    BY DEF NoProjection, NoAuth, SesProjection, SesLast
<1>2. ses.phase = "start" /\ ses.version = 0 /\ ses.entry = SesNone /\ ses.copy = NoProjection /\ ~ses.refused
    BY DEF SesInit
<1>3. ses \in SesStates
  <2>1. \A none \in SesProjection :
           [phase |-> "start", version |-> 0, entry |-> SesNone, arg |-> SesNone, at |-> 1, asked |-> FALSE,
            copy |-> none, calls |-> 0, refused |-> FALSE] \in SesStates
      BY SesAssumption DEF SesStates
  <2> QED BY <1>1, <2>1 DEF SesInit
<1>4. SesCallInv(ses)
    BY <1>1, <1>2 DEF SesCallInv, SesUp, SUPPORTED_CONTROL_VERSIONS
<1>5. sesRunner \in SesRunners /\ sesWire = <<>> /\ sesShown = NoProjection
    BY DEF SesInit, SesRunners, SesNames
<1>6. SesAll(ses.version, sesShown)
    BY <1>1, <1>5 DEF SesAll
<1> QED BY <1>1, <1>2, <1>3, <1>4, <1>5, <1>6 DEF SesInv

LEMMA SesEstablishes == SesInv /\ Establish => SesInv'
<1> SUFFICES ASSUME SesInv, Establish PROVE SesInv'
    OBVIOUS
<1>1. PICK v \in SesVersions : \/ v \in SUPPORTED_CONTROL_VERSIONS
                                    /\ ses' = [ses EXCEPT !.phase = "up", !.version = v]
                               \/ ses' = [ses EXCEPT !.phase = "ended"]
    BY DEF Establish
<1>2. ses.phase = "start" /\ sesWire = <<>> /\ sesShown.agents = SesNone /\ ses.entry = SesNone
      /\ UNCHANGED <<sesWire, sesShown, sesRunner>>
    BY DEF Establish, SesInv, SesCallInv
<1>3. ses \in SesStates /\ SesCallInv(ses)
    BY DEF SesInv
<1>4. /\ ses' \in SesStates /\ ses'.entry = SesNone /\ ses'.copy = ses.copy /\ ses'.refused = ses.refused
      /\ ses'.version \in SUPPORTED_CONTROL_VERSIONS
    BY <1>1, <1>2, <1>3 DEF SesStates, SesCallInv
<1>5. SesCallInv(ses')
    BY <1>3, <1>4 DEF SesCallInv, SesUp
<1>6. SesAll(ses'.version, sesShown)
    BY <1>2 DEF SesAll
<1> QED BY <1>2, <1>4, <1>5, <1>6 DEF SesInv

LEMMA SesBegins ==
    ASSUME SesInv, Idle, ses.calls < SesCalls, NEW e \in SesEntries \cup {"poll"},
           e # "poll" => ses.version >= SessionEntry[e].gate,
           NEW arg \in SesProviders \cup {SesInvalid, SesNone}, Begin(e, arg),
           UNCHANGED <<sesWire, sesShown, sesRunner>>
    PROVE  SesInv'
<1>1. ses \in SesStates /\ sesShown \in SesProjection /\ SesCallInv(ses) /\ SesLast(sesShown)
      /\ SesAll(ses.version, sesShown)
    BY DEF SesInv
<1>2. PICK c : c = [sesShown EXCEPT !.runner = IF e = "poll" THEN "runner" ELSE @]
    OBVIOUS
<1>3. c \in SesProjection /\ c.agents = sesShown.agents /\ c.agent = sesShown.agent /\ c.last = sesShown.last
    BY <1>1, <1>2 DEF SesProjection
<1>4. PICK k \in 0..SesCalls : k = ses.calls + 1
    BY <1>1, SesAssumption DEF SesStates
<1>5. PICK n \in Nat \ {0} : n = 1
    OBVIOUS
<1>6. ses' = [ses EXCEPT !.entry = e, !.arg = arg, !.at = n, !.calls = k, !.asked = FALSE, !.copy = c]
    BY <1>2, <1>4, <1>5 DEF Begin
<1>7. ses' \in SesStates
    BY <1>1, <1>3, <1>6 DEF SesStates
<1>8. /\ ses'.entry = e /\ ses'.at = 1 /\ ses'.asked = FALSE /\ ses'.copy = c /\ ses'.phase = "up"
      /\ ses'.version = ses.version /\ ses'.refused = ses.refused
    BY <1>1, <1>5, <1>6 DEF SesStates, Idle
<1>9. SesPassed(ses.version, c, 1)
    BY <1>1, SesBootCalls DEF SesPassed, SesCallInv
<1>10. SesAll(ses.version, c) /\ SesLast(c)
    BY <1>1, <1>3 DEF SesAll, SesLast, SesShows
<1>11. SesCallInv(ses')
    BY <1>1, <1>8, <1>9, <1>10 DEF SesCallInv, SesUp
<1> QED BY <1>7, <1>8, <1>11 DEF SesInv

LEMMA SesPolls == SesInv /\ poll_projection => SesInv'
BY SesBegins DEF poll_projection

LEMMA SesCallsEntry == SesInv /\ CallEntry => SesInv'
<1> SUFFICES ASSUME SesInv, CallEntry PROVE SesInv'
    OBVIOUS
<1>1. PICK e \in SesEntries, arg \in SesProviders \cup {SesInvalid} :
         ses.version >= SessionEntry[e].gate /\ Begin(e, arg)
    BY DEF CallEntry
<1> QED BY <1>1, SesBegins DEF CallEntry

LEMMA SesSkips == SesInv /\ Skip => SesInv'
<1> SUFFICES ASSUME SesInv, Skip PROVE SesInv'
    OBVIOUS
<1>1. ses \in SesStates /\ SesCallInv(ses) /\ SesUp(ses) /\ PollSkips(ses) /\ ~ses.asked
    BY DEF SesInv, Skip, SesUp
<1>2. SesPassed(ses.version, ses.copy, ses.at + 1) /\ ses.entry = "poll"
    BY <1>1, SesSkipMoves DEF PollSkips
<1>3. PICK n \in Nat \ {0} : n = ses.at + 1
    BY <1>1 DEF SesStates
<1>4. ses' = [ses EXCEPT !.at = n]
    BY <1>3 DEF Skip
<1>5. /\ ses' \in SesStates /\ ses'.at = n /\ ses'.entry = ses.entry /\ ses'.copy = ses.copy
      /\ ses'.phase = ses.phase /\ ses'.version = ses.version /\ ses'.asked = ses.asked
      /\ ses'.refused = ses.refused
    BY <1>1, <1>4 DEF SesStates
<1>6. SesCallInv(ses')
    BY <1>1, <1>2, <1>3, <1>5 DEF SesCallInv, SesUp
<1> QED BY <1>5, <1>6 DEF SesInv, Skip

LEMMA SesAbandonKeeps ==
    ASSUME SesInv, SesUp(ses), ses' = Abandoned(ses), sesWire' \in Seq(SesAnswers(ses.version)),
           sesShown' \in SesProjection, SesLast(sesShown'), SesAll(ses.version, sesShown'), UNCHANGED sesRunner
    PROVE  SesInv'
<1>1. ses \in SesStates /\ SesCallInv(ses) /\ ses.phase = "up"
    BY DEF SesInv, SesUp
<1>2. ses' \in SesStates /\ SesCallInv(ses') /\ ses'.phase = ses.phase /\ ses'.version = ses.version
    BY <1>1, SesAbandons
<1> QED BY <1>1, <1>2 DEF SesInv

LEMMA SesAsks == SesInv /\ Ask => SesInv'
<1> SUFFICES ASSUME SesInv, Ask PROVE SesInv'
    OBVIOUS
<1>1. ses \in SesStates /\ SesCallInv(ses) /\ SesUp(ses) /\ sesRunner \in SesRunners
      /\ ses.at <= Length(ses) /\ ~PollSkips(ses)
    BY DEF SesInv, Ask, SesUp
<1>2. PICK r : r = Current
    OBVIOUS
<1>3. SesRequest(ses, r)
    BY <1>1, <1>2, SesReaches DEF Current
<1>4. CASE ~validate_call(r)
  <2>1. ses' = Abandoned(ses) /\ UNCHANGED <<sesWire, sesRunner, sesShown>>
      BY <1>2, <1>4 DEF Ask
  <2> QED BY <1>1, <2>1, SesAbandonKeeps DEF SesInv
<1>5. CASE validate_call(r)
  <2>1. validate_operation(ses.version, r.op)
      BY <1>1, <1>3 DEF validate_operation, SesRequest, SesCallInv
  <2>2. PICK a \in RunnerAnswers(r) :
            /\ sesWire' = Append(sesWire, a)
            /\ ses' = [ses EXCEPT !.asked = TRUE]
            /\ sesRunner' = IF a.op = "configuration_apply" /\ a.outcome = "success"
                            THEN [sesRunner EXCEPT !.provider = a.value] ELSE sesRunner
      BY <1>2, <1>5, <2>1 DEF Ask
  <2>3. a \in SesAnswers(ses.version)
      BY <1>1, <1>3, <1>5, SesAnswered DEF validate_call
  <2>4. sesWire' \in Seq(SesAnswers(ses.version))
      BY <2>2, <2>3 DEF SesInv
  <2>5. a.op = "configuration_apply" => a.value \in SesNames
      BY <2>3 DEF SesAnswers, SesAnswerOK
  <2>6. sesRunner' \in SesRunners
      BY <1>1, <2>2, <2>5 DEF SesRunners
  <2>7. /\ ses' \in SesStates /\ ses'.at = ses.at /\ ses'.entry = ses.entry /\ ses'.copy = ses.copy
        /\ ses'.phase = ses.phase /\ ses'.version = ses.version /\ ses'.refused = ses.refused
      BY <1>1, <2>2 DEF SesStates
  <2>8. ses'.at <= Length(ses') /\ ~PollSkips(ses')
      BY <1>1, <2>7 DEF Length, PollSkips
  <2>9. SesCallInv(ses')
      BY <1>1, <2>7, <2>8 DEF SesCallInv, SesUp
  <2>10. UNCHANGED sesShown /\ ses.phase = "up"
      BY DEF Ask
  <2> QED BY <2>4, <2>6, <2>7, <2>9, <2>10 DEF SesInv
<1> QED BY <1>4, <1>5

LEMMA SesReads == SesInv /\ Read => SesInv'
<1> SUFFICES ASSUME SesInv, Read PROVE SesInv'
    OBVIOUS
<1>1. ses \in SesStates /\ SesCallInv(ses) /\ SesUp(ses) /\ ses.asked
      /\ sesWire \in Seq(SesAnswers(ses.version)) /\ sesWire # <<>>
    BY DEF SesInv, Read, SesUp
<1>2. PICK a : a = Head(sesWire)
    OBVIOUS
<1>3. a \in SesAnswers(ses.version) /\ sesWire' \in Seq(SesAnswers(ses.version))
    BY <1>1, <1>2 DEF Read
<1> DEFINE taken == IF validate_for(Script(ses), a) THEN Taken(ses, Script(ses), a) ELSE {}
<1>4. /\ IF taken = {} THEN ses' = Abandoned(ses) ELSE ses' = SesMoved(ses, CHOOSE c \in taken : TRUE)
      /\ UNCHANGED <<sesShown, sesRunner>>
    BY <1>2 DEF Read, Current, SesMoved
<1>5. CASE taken = {}
    BY <1>1, <1>3, <1>4, <1>5, SesAbandonKeeps DEF SesInv
<1>6. CASE taken # {}
  <2>1. PICK c \in taken : ses' = SesMoved(ses, c)
      BY <1>4, <1>6
  <2>2. validate_for(Script(ses), a) /\ c \in Taken(ses, Script(ses), a)
      BY <1>6, <2>1
  <2> HIDE DEF taken
  <2>3. ses' \in SesStates /\ SesCallInv(ses')
      BY <1>1, <1>3, <2>1, <2>2, SesReadMoves
  <2>4. ses'.phase = "up" /\ ses'.version = ses.version
      BY <1>1, <2>1 DEF SesMoved, SesStates, SesUp
  <2> QED BY <1>3, <1>4, <2>3, <2>4 DEF SesInv
<1> QED BY <1>5, <1>6

LEMMA SesEnds == SesInv /\ (TimesOut \/ Commit) => SesInv'
<1>1. ASSUME SesInv, TimesOut PROVE SesInv'
    BY <1>1, SesAbandonKeeps DEF TimesOut, SesInv, SesUp
<1>2. ASSUME SesInv, Commit PROVE SesInv'
  <2>1. ses \in SesStates /\ SesCallInv(ses) /\ SesUp(ses) /\ ses.at > Length(ses)
      BY <1>2 DEF SesInv, Commit, SesUp
  <2>2. SesAll(ses.version, ses.copy)
      BY <2>1, SesCommits
  <2>3. ses.copy \in SesProjection /\ SesLast(ses.copy)
      BY <2>1 DEF SesStates, SesCallInv
  <2> QED BY <1>2, <2>1, <2>2, <2>3, SesAbandonKeeps DEF Commit, SesInv
<1> QED BY <1>1, <1>2

LEMMA SesRunnerMoves == SesInv /\ RunnerChanges => SesInv'
<1> SUFFICES ASSUME SesInv, RunnerChanges PROVE SesInv'
    OBVIOUS
<1>1. sesRunner \in SesRunners
    BY DEF SesInv
<1>2. sesRunner' \in SesRunners
    BY <1>1 DEF RunnerChanges, SesRunners, SesNames
<1> QED BY <1>2 DEF SesInv, RunnerChanges

LEMMA SesStep == SesInv /\ [SesNext]_sesVars => SesInv'
<1>1. SesInv /\ UNCHANGED sesVars => SesInv'
    BY DEF sesVars, SesInv
<1> QED BY <1>1, SesEstablishes, SesPolls, SesCallsEntry, SesSkips, SesAsks, SesReads, SesEnds, SesRunnerMoves
           DEF SesNext

LEMMA SesImplies == SesInv => SesSound /\ SesTypeOK
<1> SUFFICES ASSUME SesInv PROVE SesSound /\ SesTypeOK
    OBVIOUS
<1>1. SesTypeOK
    BY DEF SesInv, SesStates, SesTypeOK
<1>2. SesRightOperation /\ SesNeverRefused
    BY DEF SesInv, SesCallInv, SesLast, SesRightOperation, SesNeverRefused
<1>3. SesWholePoll
  <2>1. SUFFICES ASSUME ses.version >= 5, sesShown.agents # SesNone, NEW i \in 1..Len(sesShown.agents),
                        sesShown.agents[i]
                 PROVE  /\ sesShown.agent \in 1..Len(sesShown.agents) /\ sesShown.agents[sesShown.agent]
      BY DEF SesWholePoll
  <2>2. sesShown.agents \in SesCatalogs
      BY <2>1 DEF SesInv, SesProjection
  <2>3. DOMAIN sesShown.agents = 1..Len(sesShown.agents)
      BY <2>2, SesAssumption
  <2> QED BY <2>1, <2>3 DEF SesInv, SesAll, SesShows
<1> QED BY <1>1, <1>2, <1>3 DEF SesSound

(* Whatever is late, lost to a timeout or answered with an error, an answer  *)
(* the session takes is of the operation it asked, no request the session    *)
(* makes is refused by the codec for its version, and the agent shown is an  *)
(* available one of the catalog shown: for any catalogs, versions and        *)
(* providers (control_transport.rs, the entry points and the poll).          *)
THEOREM SessionIsSound == SesSpec => []SesSound
<1>1. SesSpec => []SesInv
    BY SesStart, SesStep, PTL DEF SesSpec
<1> QED BY <1>1, SesImplies, PTL

(* The projection, its copy and the call keep their types: a poll never      *)
(* leaves a field of the snapshot with what another field holds              *)
(* (live_projection.rs, ControlProjection).                                  *)
THEOREM SessionTypes == SesSpec => []SesTypeOK
<1>1. SesSpec => []SesInv
    BY SesStart, SesStep, PTL DEF SesSpec
<1> QED BY <1>1, SesImplies, PTL

-----------------------------------------------------------------------------
(* The composition: every behaviour of the workspace is one of each part.    *)

LEMMA WorkspaceStep ==
    [WsNext]_wsVars => [SetNext]_setVars /\ [PickNext]_pick /\ [SesNext]_sesVars
BY DEF WsNext, wsVars

(* What is proved of the setup, of the picker or of the session alone holds  *)
(* of the workspace they are parts of.                                       *)
THEOREM WorkspaceAlone == WsSpec => SetSpec /\ PickSpec /\ SesSpec
<1>1. WsInit => SetInit /\ PickInit /\ SesInit
    BY DEF WsInit
<1> QED BY <1>1, WorkspaceStep, PTL DEF WsSpec, SetSpec, PickSpec, SesSpec

(* Every part of the workspace keeps its types, and its cursors and counters *)
(* their ranges (ui.rs, wizard.rs, selection.rs, runtime.rs).                *)
THEOREM WorkspaceTypes == WsSpec => []WorkspaceTypeOK
<1>1. SesTypeOK /\ SetTypeOK /\ PickTypeOK => WorkspaceTypeOK
    BY DEF WorkspaceTypeOK
<1> QED BY <1>1, WorkspaceAlone, SessionTypes, SetupTypes, PickerTypes, PTL
=============================================================================
