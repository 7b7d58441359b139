----------------------------- MODULE AppletTree -----------------------------
(***************************************************************************)
(* The applets of dde-shell: AppletManager (shell/main.cpp) with a             *)
(* DAppletLoader for every panel, the tree of DContainments, the creation of    *)
(* their root objects by DQmlEngine, and AppletConfigManager, by which single   *)
(* applets are switched off and on at run time.                                *)
(*                                                                           *)
(* What is posted to the event loop is handled in its order: the first exec,    *)
(* DQmlEngine::create, and the deletion of what deleteLater was called on, with *)
(* everything below it.  A QML file may be loaded at once or later.             *)
(***************************************************************************)
EXTENDS Integers, Sequences, FiniteSets, TLC, SequencesExt

CONSTANTS
  Panels,      \* sequence: plugins without a parent, in the order of the loaders
  ChildrenOf,  \* childrenPlugin of each plugin, a sequence
  WithView,    \* plugins with a QML file
  MayFail,     \* plugins that may be broken
  Switched,    \* bound: plugins that are switched off and on
  MaxApplets,  \* bound: applets beside the panels at a time
  MaxPending,  \* bound: events and loads under way when a plugin is switched
  NoPlugin

Plugin == DOMAIN ChildrenOf
NumPanels == Len(Panels)
AppletId == 1..(NumPanels + MaxApplets)

ASSUME AppletTreeAssumption ==
  /\ IsInjective(Panels) /\ ToSet(Panels) \subseteq Plugin /\ NoPlugin \notin Plugin
  /\ \A p \in Plugin \ ToSet(Panels) : \E q \in Plugin : Contains(ChildrenOf[q], p)

VARIABLES
  enabled, \* the configuration "enable" of each plugin
  fault,   \* what fails for a plugin: "load", "init", "view", or "no"
  tree,    \* applets: [id -> applet]; 0 is the root applet, 1.. the panels
  posted,  \* events of the main loop
  loading, \* root objects whose QML file is being loaded
  loaders, \* AppletManager::m_loaders, by panel
  wanted   \* m_pluginId of each loader

vars == <<enabled, fault, tree, posted, loading, loaders, wanted>>

\* The part of the state the nested calls work on.
State == [tree |-> tree, posted |-> posted, loading |-> loading, loaders |-> loaders]
Becomes(S) == /\ tree' = S.tree /\ posted' = S.posted
              /\ loading' = S.loading /\ loaders' = S.loaders

NoId == -1
PanelId(r) == CHOOSE i \in 1..NumPanels : Panels[i] = r
ParentOf(p) == CHOOSE q \in Plugin : Contains(ChildrenOf[q], p)
PanelOf(p) ==
  LET Up[q \in Plugin] == IF q \in ToSet(Panels) THEN q ELSE Up[ParentOf(q)]
  IN  Up[p]

\* An applet: its plugin and containment, m_applets and the model of root objects of
\* its own, and how many root objects it was given.
Applet(p, parent) == [plugin |-> p, parent |-> parent, applets |-> <<>>, model |-> <<>>,
                      loaded |-> FALSE, inited |-> FALSE, views |-> 0]

\* The applets of id, those of its applets, and so on.
RECURSIVE Below(_, _)
Below(T, id) == {id} \cup UNION {Below(T, c) : c \in ToSet(T[id].applets)}

FindApplet(T, id, p) ==
  IF id \in DOMAIN T /\ \E c \in Below(T, id) : T[c].plugin = p
  THEN CHOOSE c \in Below(T, id) : T[c].plugin = p
  ELSE NoId

Post(S, e) == [S EXCEPT !.posted = Append(@, e)]

-----------------------------------------------------------------------------
(* DContainment                                                              *)

\* An id that nothing refers to any more.
Free(T) ==
  {i \in AppletId : i > NumPanels /\ i \notin DOMAIN T
                    /\ \A c \in DOMAIN T : \A v \in ToSet(T[c].model) : v[1] # i}
FreshId(T) == CHOOSE i \in Free(T) : \A j \in Free(T) : i <= j

CreateApplet(S, parent, p) ==
  LET id == FreshId(S.tree)
  IN  [S EXCEPT !.tree = (id :> Applet(p, parent))
                         @@ [@ EXCEPT ![parent].applets = Append(@, id)]]

View(T, id) == <<id, T[id].views>>

\* removeApplet
RemoveApplet(S, id) ==
  LET up == S.tree[id].parent
  IN  Post([S EXCEPT !.tree[up].applets = SelectSeq(@, LAMBDA c : c # id),
                     !.tree[up].model   = SelectSeq(@, LAMBDA v : v # View(S.tree, id))],
           <<"delete", id>>)

\* Its children are deleted with it, and what is posted to them is dropped.  The
\* root object goes a moment later.
Deleted(S, id) ==
  LET Inside[i \in DOMAIN S.tree] ==
        i = id \/ (i # 0 /\ S.tree[i].parent # 0 /\ Inside[S.tree[i].parent])
      gone  == {i \in DOMAIN S.tree : Inside[i]}
      views == {View(S.tree, i) : i \in gone}
  IN  [S EXCEPT
        !.tree    = [i \in DOMAIN S.tree \ gone |->
                       [S.tree[i] EXCEPT !.model = SelectSeq(@, LAMBDA v : v \notin views)]],
        !.posted  = SelectSeq(@, LAMBDA e : e[2] \notin gone),
        !.loading = SelectSeq(@, LAMBDA i : i \notin gone)]

-----------------------------------------------------------------------------
(* DAppletLoader                                                             *)

\* failed: AppletManager forgets the loader of a panel.
Failed(S, p) == [S EXCEPT !.loaders = SelectSeq(@, LAMBDA r : r # p)]

\* createChildren leaves out what is switched off or there already.
Creates(S, id, p) == p \in enabled /\ FindApplet(S.tree, PanelId(PanelOf(p)), p) = NoId

CreateChildren(S, id) ==
  FoldLeft(LAMBDA acc, p : IF Creates(acc, id, p) THEN CreateApplet(acc, id, p) ELSE acc,
           S, ChildrenOf[S.tree[id].plugin])

\* load: doLoad, createChildren, and the same for each of them.
RECURSIVE Load(_, _)
Load(S, id) ==
  LET p    == S.tree[id].plugin
      with == CreateChildren([S EXCEPT !.tree[id].loaded = TRUE], id)
  IN  IF fault[p] = "load" THEN Failed(RemoveApplet(S, id), p)
      ELSE FoldLeft(LAMBDA acc, c : Load(acc, c), with, with.tree[id].applets)

\* createRootObject, of an applet and all below.
RECURSIVE CreateRootObject(_, _)
CreateRootObject(S, id) ==
  FoldLeft(LAMBDA acc, c : CreateRootObject(acc, c),
           IF S.tree[id].plugin \in WithView THEN Post(S, <<"create", id>>) ELSE S,
           S.tree[id].applets)

RECURSIVE InitApplet(_, _)
InitApplet(S, id) ==
  LET p == S.tree[id].plugin
  IN  IF fault[p] = "init" THEN Failed(RemoveApplet(S, id), p)
      ELSE FoldLeft(LAMBDA acc, c : InitApplet(acc, c), [S EXCEPT !.tree[id].inited = TRUE], S.tree[id].applets)

LoadAndInit(S, id) ==
  IF fault[S.tree[id].plugin] = "load" THEN Load(S, id)
  ELSE InitApplet(CreateRootObject(Load(S, id), id), id)

\* Defect: it is not looked whether the applet is there.
ExecAgain(S, r, p) ==
  LET panel == PanelId(r)
      up    == FindApplet(S.tree, panel, ParentOf(p))
  IN  IF p = NoPlugin THEN LoadAndInit(S, panel)
      ELSE IF p = r THEN S
      ELSE IF up = NoId THEN Failed(S, p)
      ELSE LoadAndInit(CreateApplet(S, up, p), FreshId(S.tree))

\* exec of the loader of r, for its panel or for the plugin that is wanted.
Exec(S, r, p) ==
  LET panel == PanelId(r)
      up    == FindApplet(S.tree, panel, ParentOf(p))
  IN  IF p = NoPlugin THEN LoadAndInit(S, panel)
      ELSE IF FindApplet(S.tree, panel, p) # NoId THEN S
      ELSE IF up = NoId THEN Failed(S, p)
      ELSE LoadAndInit(CreateApplet(S, up, p), FreshId(S.tree))

\* AppletManager::exec goes over m_loaders while a panel that fails is taken out of
\* it.  One in the middle makes the later ones move up in memory: the next is passed
\* over, and what the last place still holds is taken again.
ExecAll(S) ==
  LET Step(acc, i) ==
        LET r    == acc.memory[i]
            next == Exec(acc.S, r, wanted[r])
            size == Len(acc.S.loaders)
            gone == {j \in 1..size : acc.S.loaders[j] = r /\ next.loaders # acc.S.loaders}
        IN  IF gone = {} \/ gone = {size} THEN [acc EXCEPT !.S = next]
            ELSE IF gone = {1} THEN [acc EXCEPT !.S = next, !.first = @ + 1]
            ELSE [acc EXCEPT !.S = next,
                    !.memory = [j \in DOMAIN @ |-> IF i <= j /\ j < acc.first + size - 1
                                                   THEN @[j + 1] ELSE @[j]]]
  IN  FoldLeft(Step, [S |-> S, memory |-> Panels, first |-> 1], [i \in 1..NumPanels |-> i]).S

-----------------------------------------------------------------------------
(* What happens.                                                             *)

\* DQmlEngine::createFinished, with a root object or without.
Finished(S, id) ==
  LET p  == S.tree[id].plugin
      up == S.tree[id].parent
  IN  IF fault[p] = "view" THEN Failed(S, p)
      ELSE [S EXCEPT !.tree[up].model = Append(@, <<id, S.tree[id].views + 1>>),
                     !.tree[id].views = @ + 1]

\* The next event of the main loop.
Event(later) ==
  LET e == Head(posted)
      S == [State EXCEPT !.posted = Tail(@)]
  IN  /\ posted # <<>>
      /\ later => e[1] = "create"
      /\ Becomes(CASE e[1] = "exec"   -> ExecAll(S)
                   [] e[1] = "create" -> IF later THEN [S EXCEPT !.loading = Append(@, e[2])]
                                         ELSE Finished(S, e[2])
                   [] e[1] = "delete" -> Deleted(S, e[2]))
      /\ UNCHANGED <<enabled, fault, wanted>>

\* A QML file has been loaded.
Loaded(i) ==
  /\ i \in DOMAIN loading
  /\ Becomes([Finished(State, loading[i]) EXCEPT !.loading = RemoveAt(@, i)])
  /\ UNCHANGED <<enabled, fault, wanted>>

\* The loader of p's panel, if there is one whose panel is not deleted.
HasLoader(p) == Contains(loaders, PanelOf(p)) /\ PanelId(PanelOf(p)) \in DOMAIN tree

Calm == Len(posted) + Len(loading) <= MaxPending

Enable(p) ==
  /\ Calm /\ p \notin enabled /\ enabled' = enabled \cup {p}
  /\ IF HasLoader(p)
     THEN /\ Cardinality(Free(tree)) >=
               (Cardinality(Plugin) - NumPanels) * (IF Contains(posted, <<"exec", NoId>>) THEN 2 ELSE 1)
          /\ wanted' = [wanted EXCEPT ![PanelOf(p)] = p]
          /\ Becomes(Exec(State, PanelOf(p), p))
     ELSE UNCHANGED <<wanted, tree, posted, loading, loaders>>
  /\ UNCHANGED fault

\* remove
Disable(p) ==
  LET id == FindApplet(tree, PanelId(PanelOf(p)), p)
  IN  /\ Calm /\ p \in enabled /\ enabled' = enabled \ {p}
      /\ Becomes(IF HasLoader(p) /\ id # NoId THEN RemoveApplet(State, id) ELSE State)
      /\ UNCHANGED <<fault, wanted>>

\* AppletManager's constructor creates the panels.
Init ==
  /\ \E off \in SUBSET Switched : enabled = Plugin \ off
  /\ \E bad \in [MayFail -> {"load", "init", "view", "no"}] :
       fault = [p \in Plugin |-> IF p \in MayFail THEN bad[p] ELSE "no"]
  /\ tree = [i \in 0..NumPanels |->
               IF i = 0 THEN [Applet(NoPlugin, NoId) EXCEPT !.applets = [k \in 1..NumPanels |-> k]]
               ELSE Applet(Panels[i], 0)]
  /\ posted = << <<"exec", NoId>> >> /\ loading = <<>>
  /\ loaders = Panels /\ wanted = [r \in ToSet(Panels) |-> NoPlugin]

Next ==
  \/ \E later \in BOOLEAN : Event(later)
  \/ \E i \in 1..(2 * Cardinality(Plugin)) : Loaded(i)
  \/ \E p \in Switched : Enable(p) \/ Disable(p)

Spec == Init /\ [][Next]_vars

-----------------------------------------------------------------------------
(* Properties.                                                               *)

AppletType ==
  [plugin : Plugin \cup {NoPlugin}, parent : {NoId, 0} \cup AppletId, applets : Seq(AppletId),
   model : Seq(AppletId \X (1..2)), loaded : BOOLEAN, inited : BOOLEAN, views : 0..2]

\* Every variable keeps its type, and nothing refers to an applet that was deleted.
TypeOK ==
  /\ enabled \subseteq Plugin /\ loaders \in Seq(ToSet(Panels))
  /\ wanted \in [ToSet(Panels) -> Plugin \cup {NoPlugin}]
  /\ \A i \in DOMAIN tree :
       /\ tree[i] \in AppletType
       /\ i # 0 => tree[i].parent \in DOMAIN tree
       /\ \A c \in ToSet(tree[i].applets) : c \in DOMAIN tree /\ tree[c].parent = i
  /\ \A e \in ToSet(posted) : e[1] = "exec" \/ e[2] \in DOMAIN tree
  /\ ToSet(loading) \subseteq DOMAIN tree

Shown == Below(tree, 0)

\* Of each plugin there is one applet at most, however often it is switched off and
\* on while the deletion of the last one is waited for.
OneEach ==
  \A c, d \in Shown : tree[c].plugin = tree[d].plugin => c = d

\* A panel that was loaded and has its loader.
Runs(r) == /\ HasLoader(r) /\ tree[PanelId(r)].loaded
           /\ PanelId(r) \in ToSet(tree[0].applets)

\* In a panel that runs no applet is there that is switched off, ...
DisabledGone ==
  \A r \in ToSet(Panels) : Runs(r) =>
    \A c \in Below(tree, PanelId(r)) \ {PanelId(r)} : tree[c].plugin \in enabled

\* ... and each is there that is switched on, can be loaded, and has its containment.
EnabledThere ==
  \A r \in ToSet(Panels) : Runs(r) =>
    \A c \in Below(tree, PanelId(r)) : \A p \in ToSet(ChildrenOf[tree[c].plugin]) :
      p \in enabled /\ fault[p] \in {"no", "view"} =>
        \E d \in ToSet(tree[c].applets) : tree[d].plugin = p /\ tree[d].loaded /\ tree[d].inited

\* A root object that a containment shows is that of one of its applets, or of one
\* whose deletion has been posted; an applet that is there shows its own.
ShownViews ==
  \A i \in DOMAIN tree :
    /\ \A v \in ToSet(tree[i].model) :
         v[1] \in ToSet(tree[i].applets) \/ Contains(posted, <<"delete", v[1]>>)
    /\ \A c \in ToSet(tree[i].applets) :
         tree[c].views > 0 => Contains(tree[i].model, View(tree, c))

\* An applet that was started shows its root object, or it is under way.
GetsView ==
  \A c \in Shown :
    tree[c].inited /\ tree[c].plugin \in WithView /\ fault[tree[c].plugin] = "no" =>
      tree[c].views > 0 \/ Contains(posted, <<"create", c>>) \/ Contains(loading, c)

\* docs/plugin/API_en.md: top-level panels are always created and are not controlled
\* by the configuration.
PanelsStay ==
  \A r \in ToSet(Panels) : fault[r] = "no" => Contains(tree[0].applets, PanelId(r))

\* The tree of applets is the one the configuration asks for, and what the containments
\* show are the root objects of its applets.
TreeSound == TypeOK /\ OneEach /\ DisabledGone /\ EnabledThere /\ ShownViews /\ GetsView
=============================================================================
