# Verification of dde-shell

TLA+ models of the logic of dde-shell (the shell of the Deepin desktop: dock,
notifications, launchpad), the TLC configurations that model-check them on
small instances, and the theorems about them that TLAPS proves. Paths are
relative to the repository (`src/`), and within it mostly to `panels/`.

## 1. The system

dde-shell is one process (`shell/main.cpp`) that loads *applets* from plugins
and packages (`frame/`), gives each a QML root object and lets them find each
other through a *bridge*. Almost everything runs on the main thread; the
notification server and the generated settings classes have a worker thread of
their own. Outside the process are D-Bus services (the application manager, the
window manager, settings, the lock screen), the compositor (X11 or Wayland), the
loader processes of tray plugins, and the clients of
`org.freedesktop.Notifications`.

| component | state | operations | talks to |
|---|---|---|---|
| notification server `notification/server`, `common` | live entities (memory), history (SQLite), pending timeouts, one timer, the hovered id | Notify (new, replacing), CloseNotification, action, close, hover, expiry, removal from the history | clients (D-Bus, worker thread), bubble and center (main thread, direct calls); NotificationStateChanged back to both (queued from the worker) |
| bubble panel `notification/bubble` | list of bubbles, pending queue, 300 ms timer, visibility, enabled flag | push, replace, remove, clear, hover, action, close, delay | server |
| notification center `notification/center` | list of app groups and notifications, staging list, visibility | append, remove, expand, collapse, clear, open, close | server, database |
| notification settings `server/notificationsetting.cpp` | cached values, cached list of applications | read, write, invalidate | DConfig, model of applications |
| dock hiding `dock/dockhelper.cpp`, `dockpanel.cpp`, the X11 and Wayland helpers, `package/main.qml` | hide mode and state, timers, pointer and popup sets, overlap, two animations | enter, leave, mode, overlap, position, launcher, drag, screen change | window manager |
| task manager `dock/taskmanager` | windows, desktop files, docked elements, models combined from them, previews, titles | window added/removed/changed, dock/undock, activate, preview | application manager, X server or compositor, settings |
| tray `dock/tray`, `dock/pluginmanagerextension.cpp`, `loadtrayplugins.cpp` | surfaces, sections, order, loader processes, tokens | register, move, collapse, hide, restart | tray plugins (other processes) |
| dock settings `dock/docksettings.cpp`, `toolGenerate/dconfig2cpp` | values in memory, write jobs, queued calls | set, write, announce | DConfig |
| launchpad `applets/dde-apps`, `dde-am` | applications, groups, pages | add, remove, move, group, launch | application manager |
| frame `frame/`, `shell/` | plugins, applets, containment tree, popup windows, layer surfaces | load, create, remove, enable, place | every applet, window system |

Hard behaviours: two threads over one store and one hash without a lock (server);
signals that cross threads by queue while calls go directly (server and banners,
settings); timers that race events (server, banners, dock, previews); models
derived from other models through row signals, some of them queued (task manager,
tray, launchpad, center); an X server that goes on while it is asked; failing
INSERTs, and plugin processes that crash.

What makes each component correct, in a line each:

- server: a notification is live, in the history or gone, never two of them; its
  timeout closes it, and only its own; what is closed stays closed.
- banners: one is on screen only for a notification that was announced; every live
  one gets a banner unless banners are off or it was pushed out.
- center: the list shows what the history holds, groups are contiguous and
  counts agree with their rows.
- dock: shown while the pointer, a popup or a drag needs it, hidden in the end
  when the hide mode asks for it; its window ends where the panel says.
- derived models: the model equals the function of its sources after every
  signal; row numbers are those of what they name.
- caches and settings: once nothing is under way both sides have the same value.
- frame: an applet is created after its plugin, once, and removed with its
  children.

PROJECT.json lists every component with its sources, and the hazards (places that
are hard to test) at the line where they bite.

## 2. Modules

One module stands for one component. Components that interact are composed
(`NotificationSystem`); small ones that do not are put side by side in an MC module
for TLC, as *parts*: a variable `part` says which of them a behaviour is one of,
the others keep their first values, so that one run checks them all and no two
are multiplied.

| module | models | run by |
|---|---|---|
| `NotificationManager` | `server/notificationmanager`, `common/*accessor*`, `notifyentity` | `MCNotificationManager` |
| `BubblePanel` | `bubble/bubblepanel`, `bubblemodel`, under any server | `MCParts` |
| `NotificationSystem` | both and `notifyserverapplet` between them | `MCNotificationSystem` |
| `NotifyCenter` | `center/notifymodel`, `notifyitem` | `MCApplets` |
| `NotifyStaging` | `center/notifystagingmodel` | `MCParts` |
| `Lists` | the part of a list that is in a set, numbers in their order: used by `PluginHost`, `NotifyStaging`, `TaskWindows`, `TraySortOrder` | with them |
| `NotifyPolicy` | what `Notify` decides (do not disturb, lock, sound), actions with tokens | `MCSettings` |
| `NotificationSetting` | `server/notificationsetting` | `MCSettings` |
| `DockSettings` | `dock/docksettings` | `MCSettings` |
| `DConfigCache` | the classes `toolGenerate/dconfig2cpp` generates | `MCSettings` |
| `DockHide` | `dock/dockhelper`, hide state of `dockpanel` | `MCDockHide` |
| `DockWindow` | `dock/package/main.qml`: the animations of the dock's window | `MCTaskbarModels` |
| `X11Overlap` | `dock/x11dockhelper`: which windows lie over the dock | `MCParts` |
| `WindowPreview` | `taskmanager/x11preview`, `hoverpreviewproxymodel`, `AppItem.qml` | `MCParts` |
| `TreelandWindows` | `taskmanager/treelandwindowmonitor`, `treelandwindow` | `MCParts` |
| `TaskWindows` | `taskmanager/x11windowmonitor`, `appitem`, `taskmanager` | `MCTaskbarModels` |
| `TaskbarModels` | `rolecombinemodel`, `dockglobalelementmodel`, `rolegroupmodel` | `MCTaskbarModels` |
| `WindowGroups` | `dockgroupmodel`: which window a click goes to | `MCTaskbarModels` |
| `TextCalculator` | `taskmanager/textcalculator` | `MCTaskbarModels` |
| `TraySortOrder` | `tray/traysortordermodel`, `traysettings` | `MCTraySortOrder` |
| `PluginHost` | `loadtrayplugins`, `pluginmanagerextension`, `xdgactivationmanager` | `MCTraySortOrder` |
| `PanelPopups` | `frame/qml/PanelPopup*.qml`, `frame/popupwindow` | `MCTraySortOrder` |
| `X11LayerShell` | `frame/layershell/x11dlayershellemulation` | `MCTaskbarModels` |
| `WaylandLayerShell` | `frame/layershell/qwaylandlayershellsurface` | `MCTaskbarModels` |
| `AppletTree` | `frame/`: the loaders, containments and root objects | `MCApplets` |
| `Launchpad` | `applets/dde-apps`: groups and pages | `MCApplets` |
| `…_proofs` | theorems, see 4 | |

Definitions marked *Defect* in the modules are not part of any specification. Each
is a mutated form of the definition after it, as a plausible mistake in the code
would make it; a property is kept only if such a mistake breaks it (the
"mutants" of PROJECT.json). Variables marked *history* are no state of the program:
they say that something rare happened from which a property excepts what follows.

### Notifications

**NotificationManager.** `entity` is the heap of shared `NotifyData` objects
(`NotifyEntity` is explicitly shared and never detaches, so store, hash and UI alias
one object); `mem`, `memId` are `MemoryAccessor::m_entities` and its negative id
counter; `db`, `lastRow` the table and its AUTOINCREMENT; `pending`, `lastPoint`,
`timer`, `starts` are `m_pendingTimeoutEntities`, `m_lastTimeoutPoint`,
`m_pendingTimeout` and the queued `QMetaObject::invokeMethod(..., "start")` calls;
`block` is `m_blockClosedId`; `due[t]` the local list of a running
`onHandingPendingEntities` on thread `t`; `move[t]` the move of a notification to the
history that thread is in; `stage` how far the worker is in `Notify`; `changed` the
`NotificationStateChanged` the last step emitted.
*Grain:* one call is one step, except where it is observably cut. `Notify` stores,
announces, arms the timeout (`NotifyNew`/`NotifyReplace`, `Announce`, `PushPending`); the
loop over due items is one step per item (`HandleDue`). The move of a live notification to
the history (`DataAccessorProxy::updateEntityProcessedType`) is four, since each call in it
takes its own lock: type and look-up (`BeginMove`), INSERT (`Insert`), removal from memory by
the id it was called with (`Take`), and the new id with what follows on that thread (`Finish`:
announcement and pending timeout; `AddReplacement`: the rest of a replacing `Notify`, whose new
notification is added to memory only then). The main thread may act between any two of these,
and the worker between the steps of the main thread's own moves. `setId` of the moved object
and the `addEntity` and `setId` of a live one are one step with their neighbours. Overlaps
*inside* a container operation (two threads iterate the hash without a lock) are not modelled.
*The race in a move:* a notification is closed, or replaced, by one thread while the other is
between two steps of moving it. If it is closed after the INSERT, it is gone from memory and its
row stays in the history; if both move it, it gets two rows; if it was replaced in place (a
hidden replacement takes over its id), the removal takes the replacement. The model does all
this; `overtaken` (history) holds the notifications that a call took hold of so, and the
properties except them by name, see section 3.
*Time* is relative: `left` of a pending item is the time until its point, 0 once
passed; `Tick` moves everything by one. *Choices:* what `NotifyPolicy` decides, and
whether an INSERT fails (`DbOutcomes`).

**BubblePanel.** `bubbles` is `m_bubbles` (newest first), `waiting` `m_pendingBubbles`,
`busy` the 300 ms single shot `m_processPendingTimer`, `hiding` the number of 500 ms
shots `onBubbleCountChanged` has under way (each emptying starts another, none is
stopped), `enabled` the switch the center holds while it is open. `AddBubble(e, i)` is
`addBubble` with the row it replaces, `RemoveRow` a close that was announced,
`CloseRow(i, j)` a click that removes row *i* and whose call into the server announces
the end of row *j* before it returns. Which entity and which row are parameters: the
module is the panel under *any* server, and what is proved of it needs nothing of the
server.

**NotificationSystem.** Extends the server with the panel (`Panel == INSTANCE BubblePanel
WITH Entity <- Entities`) and the main thread's event queue `events`. A step of the
worker queues what it announces; a step of the main thread delivers its announcement
at once, inside the call. Rows are found as the code finds them, by the *current* id,
application and bubble id of the shared entity (`RowOf`, `ReplaceIndex`), so an entity
that was saved under a banner changes that banner's id. The
panel's part of each step is an action of `BubblePanel`, so what is proved of the panel
alone holds here by construction. That the banners call only what the server expects of a
UI does not follow from the definitions: it is the refinement `ServerSpec`.

**NotifyCenter.** `items` is `m_appNotifies` with the three item types; `db` the history;
`events` the announcements queued for the main thread. A notification is its `cTime`.
`Appended`, `Remove`, `Resorted`… are the list operations with the row at which each
inserts, moves or replaces, since the properties are about places. `strayed` is history:
a row was announced twice, after the list had read it, or not at all. `failed` says
that a `Q_ASSERT` failed, which ends a debug build.

**NotifyStaging.** `rows`, `overlap` are `m_appNotifies` and `m_overlapCount` of the staging
list, `live` the store it reads, `news` what is queued for it. `Fetched` has the order
and the length of `MemoryAccessor::fetchEntities` (oldest first, one more than asked),
`Inserted` the place at which a row comes up for a removed one.

**NotifyPolicy.** `Notify`'s decisions as functions of time, lock and settings (`InInterval`
with intervals over midnight, `IsDoNotDisturb`, `Sounds`, `Shown`), and the actions: a
call invoked, its activation token under way, the command run, the closing.

### Settings

**DockSettings.** `memory` the dock's values, `config` those of DConfig, `told` the
`valueChanged` under way, `job` the one job `m_writeTimer` is connected to. Others write
too. `Reads(k, v)` is what an out-of-range value means. `lost` is history.

**NotificationSetting.** Two halves: values (`appsCache`, `systemInfo` with their
invalidation by `valueChanged`, own writes and those of others) and applications
(`items` is `m_appItems`, `calls` the queued `onAppsChanged`, `known` what a client knows).

**DConfigCache.** `property`, `marked` in the object's thread, `stored` in the worker's,
`toConfig`/`toObject` the calls queued between them, `todo` the properties `initialize`
has not come to, `config` the pointer with relaxed loads ("stored": not sure to be
seen). A setter has two halves, since the worker may store the pointer between them.

### Dock

**DockHide.** `enters`, `shows` are `m_enters`, `m_transientChildShows`; `hideTimer`,
`showTimer` whether the 400 ms timers run; `wake` the screens whose wake-up area is
open, `onWake` the area the pointer is in; `shots` the 200 ms moves to another screen
under way; `visible` whether the window is mapped, until the hiding animation ends.
`ahead` keeps the one timing fact that matters: a 200 ms move that was asked for before
the 400 ms hide timer was started is over before that timer fires. `moved` is history:
the primary screen changed and the areas were not updated since.

**DockWindow.** `w` is the window with its two animations: `hideShow` (hideShowAnimation)
and `moving` (dockAnimation, whose end starts its second half), `hideTimer`, `changing`
(isPositionChanging), `at` and `place` (where the content is). Handlers are operators on
`w`, composed as the code nests them: stopping an animation runs its `onStopped`. The
timer fires after what ran when it was started (500 ms against 500 and 250).

**X11Overlap.** The X server (`clients`, `place`, `hidden`, `selected`, and `events` under way)
and the helper (`windows` with rect, minimised and overlap; `list`, `adding`, `requests`:
how far the handling of a client list has come). Each handler asks the server for the
present state, and the server goes on between two requests.

**WindowPreview, TreelandWindows.** The preview's container with its filter, the count of
requests, the hide timer, posted calls and the cache of screenshots; under Treeland the
handles with identifier and done, the rows, the fullscreen state, and a preview whose
enter and leave are under way for a while.

**TaskWindows, TaskbarModels, WindowGroups, TextCalculator.** The X11 monitor with its cached
states and the AppItems; the chain windows + apps → combined rows → `m_data` of
`DockGlobalElementModel` (told through the event queue, reading rows as they are by
then) → groups; the current window of each group, kept by row; the width of titles.

**TraySortOrder, PluginHost, PanelPopups.** Four section lists with visual indexes, the
configuration with its late announcements, a second writer in the same process
(`TraySettings`) and others outside. The loader processes with their retries, the
surfaces and the lists made of them, what each client was told, moves of XEmbed
windows, activation tokens. The popups that share a panel's window.

### Frame and launchpad

**AppletTree.** The tree of applets with what is posted to the event loop, QML files that
load at once or later, failures at load, init and view, and the enable configuration.
**Launchpad.** Groups, pages and their drags, saving and loading. **X11LayerShell,
WaylandLayerShell.** The place and the reserved strip of a window, and a layer surface
with commits, configure, outputs that come and go, and the two-step remaking.

## 3. Runs

| run | distinct states | bounds | question |
|---|---|---|---|
| `manager_core` | 462 517 | 2 notifications with timeout 1, 3 or none, 1 queued start, INSERTs may fail, center in use | nothing stored twice, brought back or lost, with either thread inside the other's move; every pending timeout has a timer (`TimeoutArmed`), and in the end closes its notification (`Expires`) |
| `manager_replace` | 3 318 724 | 3 notifications, plain and hidden from the center, INSERTs may fail | a bubble id names one live notification; its timeout is watched until it ends |
| `system` | 668 990 | 3 notifications (two of two kinds, or three that never expire), room for 1, 2 waiting, 2 hide shots, 2 queued announcements | the composed system implements `NotificationManager`; the queue is served, the window fits the list; a live notification has its banner, and none comes up for what is gone |
| `parts` | 601 273 | banners: 2 entities, room for 1 or 2; staging: 6 notifications, 3 rows and 2 under them; previews: 4 windows of 3 items, 2 requests; Treeland: 3 handles of 2 windows; overlap: 2 windows, 3 places, 2 areas, 1 event under way | what waits is shown and an empty window goes, in the end (`PanelSettles`); the staging list is a window on the store; previews come and go; rows are windows; the overlap is the present one |
| `settings` | 197 905 | 2 delayed settings and a direct one, values 1..3, 2 applications, 2 keys, a day of 4 hours, 2 notifications, 2 properties, 2 queued calls | both sides of each cache agree once nothing is under way; what is shown and played follows the settings |
| `dock` | 156 608 | 2 screens, 1 popup, KeepShowing and SmartHide, 1 move under way | can be called everywhere; hides in the end, shows in the end |
| `tray` | 175 729 | 3 surfaces, indexes 0..3, 1 queued call; 2 popups, 2 late steps | one place and number for every item; configuration and memory agree; a step moves one item; a popup is shown, at its size, and closed |
| `taskbar` | 653 000 | 2 apps, 2 windows, changes while 1 row signal is under way (and more after one change); a dock's window with 2 positions and 2 sizes; layer surfaces with 2 outputs, 2 rows | the derived models name what their sources have, unless a row was read behind a removal; windows, their rows and items agree; the dock's window ends where it should; the strip on the screen is the one last asked for; apps keep their place |
| `host` | 137 512 | 2 loaders started again once, 3 surfaces (1 where moves are asked for), 2 requests for 1 window, 2 tokens | lists follow the surfaces, clients know the present values, each request and token is answered, but those that a later one overwrites |
| `applets` | 436 859 | 4 panels, one with a child, 2 that may fail, 3 that are switched; 3 apps on pages of 2, 2 folders; 4 notifications of 2 applications (one announced at a time) or 3 with 2 under way, 1 announcement repeated | the tree follows the configuration; pages keep every app, and a drag moves one; shape, order and contents of the list of the center |
| `arrangement` | violated | as `applets` | the application manager's reply leaves the saved apps in their folders and order |
| `panels_stay` | violated | as `applets` | a panel switched off at run time stays, as the plugin documentation says of top-level panels |

*Why the bounds are enough.* The hazards of the server are about two notifications (one
expires while the other is replaced, closed or held) and, for replacement chains,
three: the replaced, its replacement, and the replacement of that. Two timeouts and
none give every order of points. The panel has one queue and rows that differ only in
their entity: a push, a wait and a replacement meet with two. In the center an
application needs three notifications (a header goes with the last but one) and a
second one to be ordered against. The dock has a screen it is on and another. Caches
are about one key and what is queued for it: a second key shows that they do not mix,
a second queued call that the order counts. A tray list needs an item on each side of
the one that moves; a page needs one more app than it has room for. Where a theorem
covers a property (section 4) the bounds do not matter. Two calls of two threads on one
notification multiply rows and ids: `manager_core` goes on after that (`overtaken`) only when no
timeout is longer than 1, `manager_replace` stops there, `system` goes on always; the theorems
have no such cut.

*What bounds cut.* Every bound is a constant with `Max` in its name (or `Ahead`) and a
guard: at the bound the step does not happen, the others do. Deadlock is not checked in
any run: a shell to which nothing happens rests, and the bounded ones end.

*The expected violations.* `panels_stay` states what the documentation says
(`docs/plugin/API_en.md:262`: top-level panels are not controlled by the enable
configuration) and TLC refutes it: `shell/main.cpp:93` removes them. `arrangement` states
what a comment wants (`appgroupmanager.cpp:248`: "Avoid remove all existing records when
first time"): but the application manager's reply comes in row by row
(`amappitemmodel.cpp:61-70`), after each row what has none yet is removed from its folder and
the rest is saved, so that a restart puts two apps saved as *b, a* back as *a, b*, and empties
every folder of all but the first row. See "findings" in PROJECT.json.

### Fairness

Only where a liveness property needs it, and only of Qt's event loops: posted calls are
delivered and timers that run fire, as long as the loop runs. Nothing is assumed of
users, clients, other processes or the compositor.

- `manager_core`: weak fairness of time (`Tick`), of the timer (`TimerFires`), of the
  queued start (`StartTimer`) and of the rest of a call that has begun (`Announce`,
  `PushPending`, `HandleDue`, and of a move `Insert`, `Take`, `Finish`, `AddReplacement`).
- `parts` (`PanelSettles`): of the two shots of the panel (`ProcessPending`, `HideLater`).
- `dock`: of its three timers (`HideTimeout`, `ShowTimeout`, `MoveTimeout`). The hiding
  animation and the pointer are not fair.
- `host`: of what the system reports (`HandleProcessFinished`, `Disconnected`,
  `XEmbedWindowMoveResult`, `TokenReady`) and of the retry.

### What the properties leave out, and why

- `Expires` excepts a notification under the pointer and one whose bubble is replaced
  again: the pending entry of a replaced notification goes with it.
- `StoreSound`, `NothingLost`, `FreshTimeoutKept` and `Expires` except the notifications one
  thread took hold of while the other was moving them (`overtaken`): there the code leaves a
  row of what was closed, a second row, or takes a hidden replacement for the one it replaced
  (section 2). Nothing else is excepted with them: a notification beside them keeps its store,
  its timeout and its banner.
- `EntersLive` lets a banner come up for a notification whose move to the history is under
  way: the announcement at the end of the move takes it off again.
- `LiveHasBanner` is about a panel with room for all (the code drops the last banner
  without telling the server, and no document says what should happen) and INSERTs
  that succeed (with failing ones the id -1 is ambiguous).
- `ModelsSound` excepts what comes after a row was read behind a removal (`behind`):
  `DockGlobalElementModel` hears of a row through the event queue and looks it up by its
  number then. If a window before it has closed meanwhile the new window is not found, or
  another one is, and stays without an entry; an entry given to an app while the removal
  of another is under way is the one that the removal then takes; groups that are made anew
  in between put an entry under the app whose row it has at that moment. That `MapFits`,
  `SideBySide` and `PlaceKept` hold there too was checked with behaviours that go on.
- `Faithful` excepts announcements that went astray: the code shows such a row twice, or
  not at all, by design of the queued announcement.
- `OneMoves` is about a step of a process that runs: the reply of the application manager
  (`~ready`), which moves everything, is what `arrangement` is about.
- `Answered` does not claim that every request for a move and every token gets its answer:
  the first request of two for one window is overwritten, and so is the first of two tokens
  (`EachIsAnswered`; against the comment at `pluginmanagerextension.cpp:716`, "supports
  concurrent requests"), and a request whose client is gone has nobody to be answered.
- `HidesInTheEnd` starts from something that needed the dock (in KeepHidden a freshly
  started dock stays until something happens: only `checkNeedShowOrNot` is queued at
  start), and excepts `Caught`: during the 200 ms of a move to another screen the
  pointer runs into the dock as it hides; the enter stops the hide timer, the end
  of the animation forgets the enter, and the dock that then moves has no timer.
- `Callable` excepts the time after the primary screen changed: `updateDockScreen` does
  not update the wake-up areas.
- Exceptions by history variables, each for something the code loses: `lost`
  (`DockSettings`: a pending write dropped by `m_writeTimer->disconnect(this)`), `missed`
  (`DConfigCache`: a value set while the relaxed pointer was not yet seen), `unheard`
  (a window that opens in full screen), `left` (an item whose windows are gone keeps its
  preview request), `misfit` (`TextCalculator`), `astray` (`WindowGroups`), `strayed`
  (`NotifyCenter`, `NotifyStaging`).

### Seen in the models, and not given a run

*Notifications.* A queued start of the expiry timer carries an interval computed before
an earlier point was pushed and overrides the direct start: that notification expires
late, not never (`notificationmanager.cpp:736`). A replacement of a replacement can lose
its timeout (`:764`); an entity whose INSERT failed keeps id -1, by which several are found
(`dataaccessorproxy.cpp:55`); a banner may stay for what is over (`bubblemodel.cpp:147`);
after `bubbleCount` was lowered the list stays longer than `m_maxKeep` (`bubblemodel.cpp:75`).
`actionInvoked` removes the entity before `isExtendedAction` looks at it (comment at
`notificationmanager.cpp:138`); a replacement is shown during do-not-disturb and on the
locked screen; a notification that is not shown still gets a timeout. In the center
`Q_ASSERT(entity.isValid())` can fail (`notifymodel.cpp:484`), and a group that sank below
an older application stays there, since `append` compares two equal indexes (`:252`). The
staging list compares `id()` with `bubbleId()` when it looks for what is replaced (`:253`),
so that the row stays; a removal while an arrival is announced shows a row twice;
`m_overlapCount` is not reset on close.

*Dock.* A move to another screen under way when `showInPrimary` is switched on still
moves the dock there (`dockhelper.cpp:171`); SmartHide can leave it hidden with nothing
over it (`:107`, against the comment at `:249`); `waylanddockhelper.cpp:54` keeps
`m_isWindowOverlap` outside SmartHide. On X11 windows of other workspaces count as
overlapping. `geometryChanged` is connected to the first screen only, and a screen that
is plugged in has no wake-up area until the next update. Locking during a drag of
the edge leaves `isDragging`; a position that changes only in dconfig is not followed
while the dock is visible. If all windows of a hovered item close, `onExited` returns
early and `m_isDockPreviewCount` stays up. Under Treeland a second handle with the same
identifier tracks a window twice, and `newForeignToplevelHandle` is never emitted.

*Derived models.* A window that opens is never shown if one before it closes before the dock
hears of it, or is shown in the place of another (`dockglobalelementmodel.cpp:104`); an app that is removed and installed again while docked is not shown
(`dockglobalelementmodel.cpp:60`); `modelReset` is not handled; a removal of several rows in
`RoleGroupModel` skips some (`:75-92`); `handleWindowAdded` may use a null desktop file
(`taskmanager.cpp:349`); `m_currentActiveWindow` is keyed by row. In the tray a move to the
left within a section lands one place early, a test of the stash is always true
(`traysortordermodel.cpp:404`), and a surface registered again in a forbidden section is in
no list. In the launchpad `parseGroupId` cuts one character too many, so that empty
folders are never removed (`:275`), an app may be in two folders, and the assertion of
`bringToFromt` is inverted (`:129`); `m_dumpTimer` is never started.

*Settings, plugins, frame.* An own `valueChanged` that comes late reverts a newer change
(`docksettings.cpp`); `setAppValue` overwrites what another writer stored; nothing in the
repository uses the generated classes. A second request for the same XEmbed window
overwrites the first one's callback; of two tokens for one client the earlier is never
answered. The loader's loop runs over `m_loaders` while a failing panel takes itself out of
it; a panel enabled before the first `exec` loads its child only; the queued creation of a
panel that was removed still runs. A layer window that is moved and put back keeps a
stale strut, a negative zone keeps the old one, and with two screens one below the other
heights are added up where they stand side by side (`x11dlayershellemulation.cpp:262`).

## 4. Proofs

TLAPS checks these theorems for every value of the constants: any number of
notifications, applications, kinds and timeouts, rows, screens, windows, handles,
settings, values and calls under way. They rest on the named assumptions of the modules
alone (that counts are natural numbers, sets finite where the code's are, model values
distinct), each of which TLC evaluates in a run.

| module | theorem | says |
|---|---|---|
| `NotificationSystem_proofs`, the server | `TypeCorrect`, `NoTimeoutForgotten` | types; `TimeoutArmed` |
| | `StoresAgree`, `BubbleNamesOne`, `TimeoutWatched`, `NoneLost` | `StoreSound`, `OneLivePerBubble`, `FreshTimeoutKept`, `NothingLost`, each with the exceptions of section 3 |
| `NotificationSystem_proofs`, the panel | `QueueServed`, `WindowFits` | `WaitingServed`, `VisibleFits`, under any server |
| `NotificationSystem_proofs`, the system | `SystemForgetsNoTimeout`, `SystemLinks`, `SystemImplementsServer`, `SystemStoresAgree`, `BannersEnterLive`, `LiveKeepsBanner` | `ServerSpec`, with it the server's theorems of the system; `EntersLive`, `LiveHasBanner` |
| `Parts_proofs` | `PreviewKeepsSound`, `TreelandKeepsSound`, `OverlapKeepsUp`, `PartsPreview`, `PartsTreeland`, `PartsOverlap` | `PreviewSound`, `TreelandSound`, `OverlapFollows`, of each component and of the run's composition |
| | `StagingKeepsSound`, `PartsStaging` | `StagingSound`, likewise |
| `Settings_proofs` | `DockSettles`, `ServerSettingsFresh`, `DecidedRight`, `ClassesAgree`, `SettingsCount`, `PolicyCounts` | the parts of `SettingsSound` and `PolicySound`, and both of the composition |
| `DockHide_proofs` | `DockTypeCorrect`, `AlwaysCallable` | types; `Callable` |
| `Taskbar_proofs` | `WindowKeepsUp`, `PlacesKeepSound`, `SurfaceKeepsSound`, `PartsWindow`, `PartsLayers` | `WindowFollows`, and `LayersSound` with its halves for X11 and Wayland, of each component and of the run's composition |
| `TaskWindows_proofs` | `WindowsKeepSound`, `GroupsKeepTurns`, `TitlesKeepWidth`, `PartsWindows` | `WindowsSound`: its part of the monitor and the AppItems, of the groups, of the titles, and all of it in the run's composition |
| `Tray_proofs` | `TrayKeepsStep`, `TrayListsSound`, `PopupsKeepSound`, `PartsTray` | `TrayInv`; `ListsSound` and `PopupsSound`, together `TraySound` in the composition of the runs `tray` and `host` |
| | `PartsAgree`, `PartsMoveOne`, `PartsKeepHeard` | `Agree`, `MovesOne`, `HeardIsKept`, in that composition |
| | `ListsFollow`, `ClientsAreTold`, `PartsHost`, `PartsHeard` | `HostSound`, `HeardCurrent`, of the host and of that composition |
| `Lists_proofs` | lemmas only | induction over numbers and lists, selections, ascending numbers, what `Append`, `Tail`, `RemoveAt`, `InsertAt`, `Reverse` leave |

Each module has the invariant first, then lemmas about the operators the actions are
made of, one lemma per action or group of actions, and the theorems at the end. Every
strengthened invariant was checked by TLC on the bounds of its run before it was proved.

**Timeouts.** `TimeoutArmed` (an item the pointer does not hold has a timer) is not
inductive: a step needs to know what `m_lastTimeoutPoint` claims. `IInv == TypeOK /\
Created /\ TimerInv /\ Replacing`: a finite `lastPoint` comes with a running timer or a queued start, an
infinite one only while every pending item is held by the pointer; `Created` says that
every name in hash, lists, moves and stores is of an entity that exists, `Replacing` that a
replacement that waits has the bubble of the one the worker moves. The heart is
`HandlePendingLemma` (what `onHandingPendingEntities` does to hash, point and starts,
wherever it is called from) and `SettleLemma` (what closing does).

**Stores.** `StoreInv == IdsInv /\ RowsInv /\ SlotInv /\ CallInv /\ MoveInv /\ WaitInv /\
ClosedIsGone /\ FreshTimeoutKept`. That a notification is in one store needs to know how ids
are given: those of memory are negative and count down from `memId` (`IdsInv`), those of the
table positive and count up to `lastRow`, each is given once, and what is in both is between the
INSERT and the removal of its own move (`RowsInv`). A move is in hand for several steps, in
which the other thread acts: `MoveInv` says that the moved entity is no longer live and keeps
the id the move was begun with until it gets its row's, that only it, or what took its place
meanwhile, has that id in memory, and that what both threads move is `overtaken`. `WaitInv`
is about the replacement that waits for the end of a move. That a bubble id names one
live notification needs that the live entity of a bubble is the *last* of it in the order of
`m_entities`, which is what the code finds, and that a call between its store and its
announcement still owns what it stored (`SlotInv`, `CallInv`).

**System.** That the banners call the server only as it expects (`ServerSpec`) is a
refinement that does not follow from the definitions. `LinkInv` adds to `StoreInv` what an
announcement under way means (`ArrivalInv`: the ids of arrivals were given out, and none leads
to what is not announced yet, except the hidden replacement that takes over its *twin*'s id),
what a banner is of (`BannerInv`), and of the moves what a banner can tell: what a move
saved it has taken (`Cleared`), and without failing INSERTs what is in memory is live or moves
(`HeldInv`). `BannersEnterLive` follows when no INSERT fails. `LiveKeepsBanner` needs `KeptInv`:
no live notification has the id of a dead one, or of one whose end is queued, unless the main
thread is moving the one it has it from (`DeadNames`, `ClosedNews`, `OwnId`); of a bubble one
is in memory (`BubbleInv`), so that what replaces a banner replaces none that is live; and rows,
queue, arrivals and the untold together are no more than what the list may keep (`Counted`). Its
hypotheses are `Reliable` (no INSERT fails, no notification of the bluetooth kind, which is
announced without being stored: otherwise an entity keeps id -1, which is ambiguous) and `Ample`
(the list has room for all the entities: a list without room drops rows without a word). They
are those under which the property is meant, and the `system` run has states with them.

**Panel.** `PanelInv == TypeOK /\ WaitingServed /\ VisibleFits` is inductive; `CountChangedFits`
and `InsertFits` say that any change of the list keeps the window in step with it.

**Previews, Treeland, overlap.** `PreviewInv` counts: the requests of the container against
the items that hold it, and what is shown against the timer (`ShowInv`, `CountInv`).
`TreelandInv` splits in two that do not touch each other: handles, windows and rows
(`WindowInv`: which handle a row stands for, each once, and full screen), and the preview
with what the compositor has under way (`HoverInv`). `OverlapInv` is about knowledge: for
every window the helper knows its present state, or an event or the rest of an answer
that will tell it is under way (`KnownRight`, `Awaited`), for lists and areas likewise
(`ListInv`, `AreaInv`, `HeardRight`). `ServerTells` says that every change of the X server
that the helper asked to be told of is told. Lemmas on sequences (`AppendRow`, `InConcat`,
`InTail`) stand for induction.

**Settings.** One invariant per part. `DConfigCache` is the deep one: two threads with two
queues between them and a pointer not sure to be seen. `CacheInv` says per property that
the *last* of what is queued in a direction is the other side's value, or nothing is
queued and they agree, or the value was missed (`KeyInv`, with `Last`, `Absent` and
`Pending` of a queue).

**Dock.** `HideInv == TypeOK /\ Callable` is inductive: every change of the dock's screen, of
`showInPrimary` or of the (launcher-aware) hide state reaches `updateAllDockWakeArea`,
except the one of the primary screen.

**Dock's window and layer surfaces.** Three components of the `taskbar` run. `FollowInv`: an
animation that runs leads where the state says, or the other is under way, the timer
runs, or the window changes its edge and will be looked at again when that ends (an
animation left in the other direction is the case that needs care); what a
drag has changed is kept until it is the panel's. `PlacesInv`: "once the X server has
answered" is not inductive, since an answer may equal what was known and then nothing
is looked at. `AskedRight` is: if *every* place still asked for is the one the window
has, that place is right. What is reserved needs `Fresh` and that under one screen
there is at most one other (`BelowHeights`, over the three arrangements of screens).
`SurfaceInv`: what the surface sent is what the window wants (`Sending`), what is not
committed has a commit under way (`Counting`), and the surface is on the window's output
or is being made anew (`Standing`).

**Tray plugins.** `HostInv` adds to the properties that what waits is of a request that was
made, for the window it waits for (`MovesAsked`): so that an answer, which takes the
window's entry away, leaves none of its own request behind. That the lists by type are
selections from the list of all needs induction, which the library states for
operators only. In `Lists_proofs` `LeastNumber` gets it for *sets* out of the well-founded order of the
numbers (`WFMin`), `NumberInduction` and `ListInduction` follow, and with them what a
selection is (`SelectionOf`, `OnlyAppend`, `OnlyItems`) and that two selections are one
(`OnlyTwice`). `Only` is a recursive function for that: the prover knows nothing of
`SelectSeq`.

**Staging list.** The list is read from the store while the worker has news of the store
under way. `StagingInv` says of a list that is shown and has not strayed (`strayed` is the
model's record of the ways the code loses count): a row is
live, or the news of its end is under way (`ClosedLater`); an arrival that is gone by
the time it is heard has its end queued after it; a live notification that was heard of is a
row, or the list is full. `overlap` is computed anew from the store by every handler, so
it is right only once the news are heard, and no more is claimed of it. That `remove` may
read `BubbleMaxCount + OverlayMaxCount + 1` entities only is enough because then either
all were read (`FetchedAll`) or the count is at its limit in any case. `Ascending` is proved to list a set of numbers without
repetition by counting ranks (`AscendingItems`).

**The task manager's windows.** The X server goes on between any two requests of a handler.
`TasksInv` says what it cannot outrun: a window's events are selected before it is tracked
and its state read, so that a state that was read is the present one or news of it are
under way (`StatesInv`); what the monitor knows is the rows, what it is about to track and
the dock's own windows, and equals the server's list unless another list is under way
(`KnownInv`); an AppItem shows the active window of those it has, or the news of that is
under way (`ItemsInv`). `ActiveShown`, which is claimed at rest, is what that leaves when
nothing is under way.

**Groups.** The row of a group learns of its active window by signals that carry row
numbers, and rows move while signals are queued. `PathInv`: for every row there is the
place it will have when all signals are delivered (`Reaches`, a path through the queue,
so that no recursion is needed; a signal about a row that is gone is dropped), and for the row
of a group that lost no signal (`astray`) it is the place of the active window. At rest the path is empty.

**Titles.** `TitlesInv`: the cache of widths is that of the present font, and the width found
is the greatest that fits. Sums over the titles are whole numbers by `NumberInduction`.

**Tray.** The model keeps one truth three times: the four lists, the rows with section and
number, and the configuration with those who have still to hear of it. `TrayInv` says how
they hang together. `Sane`: no item is in two lists or twice in one (`Once`), every surface
with a row is in the list its row names, and that is none it is forbidden. The model
is `Laid` of some model whose lists were in order (`Ready`), since every handler ends in
`updateVisualIndexes`: that is what makes the numbers provable at all. `InStep`: the
saved lists are the shown ones but for the stash's placeholder, which is not saved before
the next write, and what was announced is what is shown. Four assumptions on constants are used:
there is a surface, and none has the name of one of the model's own rows
(`SurfaceAssumption`, also: what a surface prefers is not forbidden to it); an application's
item may be in the stash (`AppTrayAssumption`, from `tray.qml`); an order that an
older session saved has no item twice (`OrdersAssumption`, which is `Once` of that session).
`Agree` follows when nothing is to be told. `MovesOne` is about *every* step, a reload
and a restart too: `PutKeeps` and `InsertKeeps` say that taking an item out of a list and
putting it in anywhere leaves what is selected of the others (`OnlyRemoved`,
`OnlyInserted`), and `LoadedIs` and `NewModelIs` that reading the configuration back gives
the lists that were there.

The numbers (`Numbered`) are the hard part. `reserveStagedDropSpace` leaves a gap for the
item that hovers, in the middle of a count. `LayoutIs` turns the passes of the code into one
line of rows, `Climbs` says that the line goes through the sections in order (`Rank`)
without an item twice, and then what a row gets is its place in the line, shifted by one from
the gap on (`LineNumber`); `NumbersAre` counts: as many numbers as rows, from 0 to
`count - 1`, but the gap.

**Popups.** The panel has one window for all its popups, and three things are put off by
`Qt.callLater` or timers: the size, the opening, and what loss of focus means. `PopupInv` says
of each that it is right or that its remedy is queued: the window has its item's size or
will ask for it (`SizeIs`), the popup that was asked for last is shown or opens later
(`DueIs`), and a window that lost the focus has somebody who will close it (`UnfocusedIs`).
At rest nothing is queued, and what is left are the properties.

*Only model-checked.* What holds under fairness (`Expires`, `PanelSettles`, `HidesInTheEnd`,
`ShowsInTheEnd`, `Answered`), since TLAPS has no rule for it. `ListSound`, `Faithful`,
`NewestRises`, `ModelsSound`, `PlaceKept`, `PagesSound`, `OneMoves`: their models select
from, sort and flatten sequences (`SelectSeq`, `SortSeq`, `FlattenSeq`), operators of which
the provers know nothing. Their facts would need the induction of `Lists_proofs` and
selections written as functions, as those of the tray are. `TreeSound`: `AppletTree` declares recursive operators (the tree is walked).

## 5. Not modelled

PROJECT.json names each part and the reason: the OSD (one timer and one type), the D-Bus
adaptors and the positioner, the tray's geometry, applets and helpers that forward a
call, the shell's start-up, and examples, generated and vendored code. Within the modelled
components: texts, pictures, sounds as such, painting, geometry along an edge; container
operations of the two threads that overlap within one call (the code shares
`m_pendingTimeoutEntities` without a lock); how X11 and Wayland find out what is full
screen; screens that come and go under the dock; the search for plugins on disk; the
identification of apps; the text input and clipboard glue of tray plugins.

## 6. Plan

1. *Proofs.* An abstract life of a notification (absent, live, history, gone) that
   `NotificationManager` implements. The other sequence models, with selections and
   sorts as recursive functions and the induction over lists of `Lists_proofs`:
   `NotifyCenter` first, then `TaskbarModels` and `Launchpad`.
2. *Models.* The two threads inside the shared hash; a restart of the server over rows of
   an earlier session; screens that come and go (`dockpanel.cpp`, `dockhelper.cpp`), the
   identification of windows (`x11utils.cpp`), the search for plugins
   (`pluginloader.cpp`), the OSD.
