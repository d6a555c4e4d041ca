# A TLA+ model of Onsang

Onsang is a terminal client for Hord, an object database.  The program opens
*sessions* (each one a Hord hive driver over a *datastore*), shows the objects of a
session as tabs of views, and edits their props (metadata, tables) in grids.  This
directory holds TLA+ modules translated from the sources under `src/src/Onsang`,
the TLC configurations that check them, and TLAPS proofs about them.

Source paths below are relative to `src/src/Onsang`.

## The system

| component | files | state | operations | calls / is called by |
|---|---|---|---|---|
| FlatDatastore | `IO/FlatDatastore.*` | root directory: stubs, index, prop files, lock file; per process: `storage_info`, `m_prop`, `State::opened` | open, close, acquire/release a prop stream, create/destroy an object | called by Hord commands through the session |
| App, Session, SessionManager | `App.*`, `System/*`, `main.cpp`, `init.*` | phase of the program, managed and open sessions, current session, stdout | ctor, init, start, start_ui, add/init/set/close session, event filter | creates sessions, datastores and views |
| Tabs and views | `UI/TabbedContainer.*`, `UI/TabbedView.*`, `UI/View.*`, `UI/SessionView.*`, `UI/ObjectView.*` | tabs, position, visibility, parent and index of each widget, focus | insert, remove, set, move, sub-view operations, notifications | App and Session call them |
| Grids | `UI/BasicGrid.*`, `UI/TableSchemaEditor.*`, `UI/TableGrid.*` | rows, selection, cursor, view range, edits | insert, erase, select, move, edit, reset | views own them; field input fills them |
| Prop views | `UI/BasePropView.*`, `UI/PropView.*`, `UI/DataPropView.*` | metadata grid, title field, table schema | edit, notify_command | commands of the session |
| ConfigNode | `ConfigNode.*` | tree of entries and child nodes | import, validate | App reads the configuration |
| Command line and fields | `UI/CommandStatusLine.*`, `UI/BareField.*`, `UI/FieldDescriber.*` | input mode, message, caret, text, focus | prompt, input, set_message | App's event filter |
| Plumbing | `Log.*`, `Error.*`, `serialization.hpp`, `utility.hpp`, ... | none that the properties tell apart | | everywhere |

What is hard here: several processes may use one root path (nothing but the lock
file keeps them apart); `open_impl` and `close_impl` touch the disk several times
and can stop between any two; operations that throw part-way leave state behind
that later operations rely on; and the user interface is a long-running sequence of
callbacks in which indices, cursors and pointers must follow containers that grow
and shrink.

What makes each part correct:

* FlatDatastore: who is open holds the lock; an index is never replaced by an older
  or a shorter one; no object is forgotten; a prop that is called initialized can be
  opened; the pointer of the open stream stays live.
* App: the current session is open and its view is the one displayed; a session that
  was opened is closed when the program ends; stdout is off exactly while the UI runs.
* Tabs: exactly the current tab of a view is visible; position and indices follow every
  insertion, removal and move; titles are those of the objects shown; what is focused is displayed.
* Grids: grid, selection and data have one length; the cursor is in the window and stays on
  its row when rows are inserted; modified marks are exact; the columns of the schema survive
  until the editor is reset; removing the selected rows removes exactly those; a cell that is
  opened and accepted unchanged keeps its value and its type.
* ConfigNode: a configuration that validates is one App can use, and the sessions built from
  it are numbered without a gap.
* Command line and fields: one widget takes the keys, it is the focused one, and the caret is at
  its cursor.

How the parts meet: App reads the configuration into a ConfigNode, adds sessions to the
SessionManager, opens their datastores, and shows the view of one session. Keys go
through App's event filter to the focused widget; a grid turns some of them into Hord
commands on the session; a command that acts is passed back down the views before it
returns (`Session::notify_command`, then SessionView, ObjectView, PropView), and only then do
the grid and the tab titles change. All of this is one thread. Concurrency enters through
the root paths, which any number of processes may use.

## Modules

| module | what it is | checked by |
|---|---|---|
| `FlatDatastore` | a root directory and the processes that use it | `datastore_shared`, `datastore_race` |
| `ObjectStore` | abstract: a store checked out by one user at a time | `FlatDatastore` implements it |
| `FlatDatastoreProofs` | theorems about `FlatDatastore` | TLAPS |
| `App`, `MCApp` | the program from `main` to its end, with its sessions | `app`, `app_stdout` |
| `AppProofs` | theorems about `App` | TLAPS |
| `Sessions` | `App` over `FlatDatastore`; implements `App` | `sessions` |
| `SessionsProofs` | theorems about `Sessions` | TLAPS |
| `Tabs` | operations of a TabbedContainer on a record | through the next two |
| `TabbedContainer` | one container under any calls | `tabs` |
| `TabbedContainerProofs` | what each operation of `Tabs` does; theorems about `TabbedContainer` | TLAPS |
| `SessionView` | session view, object views and prop views composed of `Tabs` | `session_view` |
| `SessionViewProofs` | theorems about `SessionView` | TLAPS |
| `Grid` | operations of a BasicGrid on a record | through the next three |
| `BasicGrid` | the grid of a widget and the keys every grid takes | through the next two |
| `SchemaEditor` | TableSchemaEditor, a `BasicGrid` | `schema` |
| `MetadataGrid`, `MCMetadataGrid` | the metadata TableGrid, a `BasicGrid`, with its field, commands and notifications | `metadata` |
| `GridsProofs` | what each operation of `Grid` does; theorems about `SchemaEditor` and `MetadataGrid` | TLAPS |
| `BareField` | operations of a BareField on a record | through the next |
| `CommandLine` | the prompt, the grids with open fields, the focus between them | `command_line` |
| `CommandLineProofs` | theorems about `CommandLine` | TLAPS |
| `ConfigNode` | reading a configuration file and validating it | `config`, `config_assert` |
| `ConfigNodeProofs` | theorems about `ConfigNode` | TLAPS |

Operators whose comment begins with `Mutant:` are variants of the definition that follows
them, wrong in the way a slip in the code would be. No specification uses them; they serve to
show that each property notices such a slip.

### FlatDatastore

The disk (`stubs`, `index` and `indexState`, `files`, `torn`, `lock`) is shared. Each process has
the fields of a `FlatDatastore` object: `opened` is `State::opened`, `storage` is `storage_info()`,
`stream` is `m_prop` and `State::locked` together. `pc` says where a process is within
`open_impl` (`resident` and `orphan`: making the stub directories; `lock`; `index`) or `close_impl`
(`write`). Everything between two accesses of the disk is one step; between steps other
processes run, and a process may die (`Crash`). `Fault` is an I/O call that fails; each
operation that can fail has the branch the code takes then. The index is `torn` from the moment
`close_impl` opens it for writing until `write_index` is done.

The root is a whole datastore or empty at first. `damaged` remembers that an `open_impl` may have found the root empty,
or that an index was not read or not written in full; what is promised of the lock and of
the objects is promised until then, and `datastore_race` shows that an empty root breaks it.

`acquire_stream` and `release_stream` are the actions `AcquireInput`, `AcquireOutput` and
`ReleaseStream`; an acquisition that throws changes nothing, so it has no action. The contents
of a prop are abstracted to whether they are complete (`torn`).

External, and modelled from how the code uses them:

* `Hord::IO::Datastore` calls an `_impl` only when the datastore is open (or, for
  `open_impl`, is not) and, except to release, has no stream. The comments at
  `FlatDatastore.cpp` 289, 334, 423 and 501 say the base class checks this; `Usable` and
  `Unlocked` are those guards.
* `Hord::LockFile`: one holder; `acquire` throws when another has it; `release` by a process
  that does not hold it does nothing; the lock of a dead process is free. The lock file lies
  in the root, so a root with a held lock is not empty.

`ObjectStore` says what a user of the datastore relies on: check out, edit, save, leave, and nobody
else in between. The refinement maps `holder` to the process that has the lock and has
read the index, and `saved` to the index, except while it is being written, when it is the map
of the process that writes. The moment of saving is thus the completed write, and a crash in the
middle of it damages the store (`broken`).

### App

`phase` follows `main`, `App::init` and `App::start`; `todo` is what the loop of the present phase
has not reached (the managed sessions are kept in a hash map, so their order is free). `init_session` is two
actions, `InitSession` (the datastore is opened) and `InitCommand` (the Init command, and the first session for which it
succeeds is shown), and `close_session` too: `CloseSession` runs the Store command, and `CloseDatastore` or
`CloseRefused` ends it. `busy` is the session between the two.
A session sees its datastore as the result of `open_impl`: created, opened in full (`OpenReturns`), opened
without a good index (`OpenHalf`, kept in `half`), or refused. This result is one step here; other
programs come in through `OthersLock`, `OthersWrite` and `OthersUnlock`. Bad commands and UI calls that throw
are faults; clearing the views and closing the context, once the sessions are closed, are such calls as well, after which the
context may be open or closed. Of the event filter only ctrl-c is here; the keys that act on views are in `SessionView`.

### Sessions

`Sessions` instantiates both: `D` is a `FlatDatastore` whose processes are the sessions of the program and other
programs at the same root, `A` is the `App` it implements. The program's steps are those of `App` except that a
datastore is opened and closed by the steps of `open_impl` and `close_impl`, with those of the
other programs in between. `ImplementsApp` says that these amount to the one-step results of `App`. In the mapping

* a session in the middle of `open_impl` is not yet open and does not yet hold the lock for `App`: what
  `App` calls opening, or being refused, is the last step;
* the disk is seen as empty as long as a session that found it so is making the root, although the stubs are
  there already, since that session will not read an index whatever is there;
* the truncation of the index in `close_impl` is one more write by another program as far as `App`
  can tell, as it makes the disk `unreadable` until the index is written.

Objects are left out here (the set is empty), and faults of other programs are, since a program that dies does all
that one of theirs could do to the root.

### Tabs, TabbedContainer, SessionView

A box holds the tabs and what the container tells its widgets (`set_visible`, `set_parent`,
`set_index`). `TabbedContainer` calls the operations in any order. They do not all
keep visibility: `remove` does not follow the current tab when an earlier one goes,
`move_tab` does not follow a tab that is moved across, `set_tab` tells nobody. What remains then is that
the position names a tab, that every widget knows its index until `set_tab` exchanges one, and that an insertion,
wherever it is, leaves the current tab current (`PlacesFollow`). The program only inserts, switches and removes the
current tab, and for that `SessionView` has the full consistency of visibility, parents and indices. The
focus, which nothing in a container depends on, is there too.

`SessionView` is two levels of boxes: object views in the session view, three prop views in
each object view. Keys are its actions: esc and a digit (`SetSubView`), esc and a symbol
(`SetPropView`), closing a view. `SetSlug` includes the notification that renames a tab by the index the view
was last given. The focus is the prop view the focused widget is in; which widget Beard focuses
is external, and assumed to be a visible one.

### Grid, BasicGrid, SchemaEditor, MetadataGrid

A grid record holds the columns and the row count of the ProtoGrid, `m_sel`, `m_cursor` and the window on the rows: its first
row (`top`) and how many fit (`fit`). `content_action` is split by its
argument; the program always asks for one row, so `count` is 1. Render queues are left out.

`BasicGrid` is the base class of both widgets: the variable `grid`, and the keys `BasicGrid::handle_event_impl` takes
before the widget sees them. `SchemaEditor` and `MetadataGrid` extend it as the classes derive from it; what
differs is called by different names (`MGInit`, `MGNext`, `MGSpec`, `MGTypeOK`), so that one module of proofs can extend both.

`SchemaEditor` has an action per key. `m_data` is `data`: a row has the column of the schema (`orig`), the column
as edited, and the set of marked cells. `NoIndex` is `~0u`. The loop of `erase_selected` is a recursive
function: `turns[n]` is the state after n turns, and carries the loop index, so that advancing it wrongly is expressible. Value
types and sizes are numbers that wrap around; `cursor_step_value` is only ever called forwards.
Nothing in the program writes the edits back to the table, so there is no such action, and the
schema does not change.

`MetadataGrid` joins the grid with the table of fields. A value is null, a string, a number or an object ID, among them the null
ID and IDs of objects that are gone. `field` is `m_field` with `m_field_type` and the line of the window it was placed on.
A text is a path (it begins with a slash, whether it names an object or not), of the characters of
numbers (which is all that `field_input` filters, so `Numerals` holds malformed ones too), a word, or empty; names are typed like
other texts and may be empty. `ReadBack` is what enter does with the text: a text of an object ID, and a path in a field
of any type, becomes the ID of the object it names or the null ID.
What is printed and read is external and given by constants: `Printed` (numbers as texts), `ReadFrom` (Hord's `read_from_string`), `PathTo` and
`FindPath`. No assumption makes one the inverse of another: two numbers may print alike, and the path of an object that is gone finds
none. The loop over the selected rows is a recursive function too, from the last row to the first, in which every turn is a whole command:
the table changes and the notification shrinks the grid. External too: Hord names no two fields of a table alike, chooses where a
created field goes, and may refuse a rename.

### BareField, CommandLine

A field is the length of its text, its cursor and the first column shown (`view`). Keys, a new
geometry and taking or giving up input control are operators that end as the code does, in
`UpdateView`. `CommandLine` has one field per widget and one `width`, that of the field in use, as a
field is reflowed before it is used. `control` is the set of widgets with input control; such a
widget handles every key, so everything App's event filter does is guarded by `Idle`. `location` names the
grid whose cursor the status line tells of. `CloseView` leaves the focus on what is gone, as
`close_sub_view` does. External: txt::Cursor keeps columns within the text and `assign` leaves the
cursor anywhere in it; `set_focus` tells the old widget first.

### ConfigNode

The tree App declares is fixed, as the constructor gives it. The file is not: each step of `import` chooses the
next thing in it, so every file is read, in the order of its text. `open` holds the calls of
`import` under way, from the root inwards; a session is imported into a copy of the template
(`splice`) that joins the tree when its import returns. Values are their types. `EndNode` of the root ends the
import; `Validate` is what `App::init` does then. `built` are the sessions with the index each was given.

## Runs

| run | instance | shows |
|---|---|---|
| `datastore_shared` | two processes, one object, one prop, a root that is empty or a datastore, opened with and without `create_if_nonexistent`; 2 crashes, 2 faults | exclusive opening, no object forgotten, no torn read, the stream pointer stays live, initialized props have files, a process leaves `open_impl` or `close_impl` with the lock only if it is open and its map whole, and `FlatDatastore` implements `ObjectStore` |
| `datastore_race` | two processes that create, no faults | a violation: see Findings |
| `app` | sessions a and b on one root, c on another, all auto-open; every state of the disks; 2 faults | the current session is usable, roots are exclusive, what can be closed is closed, quitting ends the program |
| `app_stdout` | the same | a violation: see Findings |
| `sessions` | two sessions and another program on one root; 2 crashes, 2 faults | the steps of the datastores implement `App`; a program that ends in good order leaves a whole index |
| `tabs` | three widgets, every operation | position, indices, the current tab |
| `session_view` | three tables, two slugs | visibility, parents and indices at two levels, titles, focus |
| `schema` | up to 2 columns, 2 rows, 2 types, 2 sizes, 2 names | sizes, columns, cursor, selection, marks |
| `metadata` | up to 3 fields, of which one has a value; two numbers, of which one prints as the other; an object, one that is gone and the null ID; windows of 1 and 2 rows | grid, table and window stay in step; cells are edited as what they are |
| `command_line` | two grids, texts of up to 8 characters, fields 2, 3, 4 and 7 wide | focus, keys, caret, location, the part of the text shown |
| `config` | session names s, builder and none | validation against what App needs, numbering of sessions, types |
| `config_assert` | session names s, t, builder and none | a violation: see Findings |

Why the bounds are enough. Two processes on one root make every race over the lock, the
stubs and the index; a third could only repeat what one of the two did. Two crashes and two faults
meet in any order at every step, so that a failure also hits the process that finds what an earlier one left. The
datastore keeps nothing that relates two objects
or two props, so one of each suffices there; the theorems hold for any number. Two sessions on
one root and one on its own are the least with both a conflict and a free root; `sessions` keeps the conflict and adds
the steps of another program. With three tabs, a
tab can be before, at or after the position and one more besides; three rows (`metadata`) do the same for
erasing while iterating, and windows of one and two rows are less than that. The texts of `metadata` are one of each kind
that is read differently: empty, a number, the characters of one that is none, the path of an object and a path of nothing; the names the program gives are texts too.
One field with a value at a time is enough there, as opening and accepting a cell reads no other, and removals tell fields apart by their names.
Two rows suffice in `schema`, as a step of a cell reads no other row, and its
loop of erasure and its insertions only tell the rows before a place from those after it. The widths of
`command_line` are no room, room for nothing but the caret, one and four characters, and
texts are up to twice as long as the widest shows. Two sessions of different names and one that repeats a
name make every order of numbering and refusal. `MaxRows`, `MaxColumns`, `MaxFields`, `MaxValued`, `MaxLength`, `MaxCrashes` and `MaxFaults` are the
only bounds in guards.

Deadlock is checked everywhere but in the `App`, `Sessions` and `ConfigNode` runs: there the program, or the
reading of the file, ends.

Fairness is assumed in `App` only: `FairSpec` is weak fairness of `Work`, what the one thread does next.
The user is not obliged to press ctrl-c, other programs need not give a lock back, and no
fault is obliged to happen; `QuitEnds` starts where the user has quit.

What the runs record rather than catch. Some of the code's weak places are known to it or follow from its design, and a property that forbade them would only fail. The
properties then say what holds until such a place is met, and the model keeps what happens after it:
`OpenHoldsLock` and `NoObjectLost` hold until `damaged` (an empty root that is opened, an index not read or written in full),
`NoTornRead` and `IndexAtEnd` without crashes and failures, `ClosedAtEnd` but for the sessions that refused to close (`kept`), the first part of `RootsExclusive` but for the half-open ones, and
`FocusDisplayed` and `LocationOfFocus` but for a view that was closed under the focus.

## Findings

* `FreshOnlyIfNew` (run `datastore_race`). `FlatDatastore.hpp:180` documents that the datastore is created "if the root
  path is empty". `open_impl` decides that before it takes the lock and does not look again. Process
p1 finds the root empty and makes the stubs. p2's `open_impl` then finds a root that is not empty and has no index: it throws, with
`State::opened` left set, so p2 can close, and its close writes an index. p1
takes the lock, skips that index, and is open with an empty map that its close writes over it.
* `StdoutOffWithUi` (run `app_stdout`). `App.cpp:614` says the terminal gets confused unless stdout is
  disabled. When a UI call throws, the handlers of `start` enable stdout while the UI context is
  still open.
* `ImportsNodes` (run `config_assert`). `ConfigNode.cpp:94` asserts that `import` is given a node. A value, not a node,
  named "builder" within "sessions" is found as the entry of that name, and `assign` imports it into a copy
  of the template without asking its type (`ConfigNode.cpp:32`).

## Proofs

The assumptions are those on the constants that the modules name, and nothing else.

**FlatDatastore.** `FlatDatastoreProofs` proves for every set of processes, objects and props, any number of crashes and
faults, and both kinds of root: `TypeCorrect`, `PropPointerStaysLive`, `InitializedPropsExist`, `NoLockLeak`.
They follow from one inductive invariant, `IInv`: the type invariant; the stream of a process is on
an object in its map, under the linkage it has there (`PropPointerLive`) and on a file that exists
(`StreamHasFile`); initialized props have files; who has the lock is open or on its way (`HolderOpened`); and the
phase of a process agrees with `opened` and `lock` (`PhaseMatches`). None of these is inductive alone.
The type invariant needs the pointer: `release_stream` marks a prop through it, and marking an
entry that is gone would make a map entry that is no StorageInfo. `InitializedHasFile` needs
`StreamHasFile`, as it is the release of a stream that makes a prop initialized. `HolderOpened` needs the phases, since
the handler of `open_impl` gives back a lock that only the phase says is its own. `NoLockLeak` is about steps (`LockGivenBack`): whoever comes out of
`open_impl` or `close_impl` still holding the lock is open and has read the index in full, or made the root. That excludes the one failure
that meets the lock, an index that cannot be read, which leaves `opened` set.
Each lemma about a step has one step per action; `StepFrame` says once and for all that a
step of one process leaves the rest of the processes alone.

What is promised of the lock and of the objects needs more: `IInv` is strengthened by `AlwaysIndexed` (as long as nothing is damaged the root is not
empty, so no process skips the index) and `Intact` (until an index is damaged, the one
who is open holds the lock; the index is whole unless its holder is writing it; index and maps
list the live objects). From it follow `OpenIsExclusive` (`OpenHoldsLock`) and `ObjectsAreKept` (`NoObjectLost`).

Last, `FlatDatastore` implements `ObjectStore` (`ImplementsStore`): under the invariant every step maps
to one of the store or to a stutter, until it is damaged, when `Break` takes it. `ReadsAreWhole` (`NoTornRead`) adds
that a file is torn only while the process that is in has an output stream on it.

**App.** `AppProofs` proves `TypeCorrect`, `CurrentIsUsable`, `RootsAreExclusive` and `AllClosedAtEnd` for any sessions,
roots and numbers of failures. Its invariant adds: the loops go over managed sessions; a session holds
no lock but its root's; a session under way in `init_session` is open in full and has its view; nothing is
current once the loop has ended; what is open while the program closes is yet to be reached, under way or failed to close
(`OpenAccounted`, without which `ClosedAtEnd` is not inductive); and stdout obeys `--no-stdout`.

**Sessions.** `SessionsProofs` proves that the steps of `open_impl` and `close_impl`, with those of other programs between them, implement
what `App` says happens at once (`SessionsImplementApp`), and that a program which ends in good order leaves a whole index
(`IndexIsLeft`): for any sessions and other programs at one root, any number of crashes and failures. The invariant
says that the program is in one datastore at a time and that where it is there agrees with where `main` is (`OneAtATime`); that this agrees
with `opened` and the lock (`PhaseMatches`); that a session which found its root empty may create it, and finds a stub when
it has the lock (`FreshRoot`, on which the steps that make the root and take the lock rest); and, for
the index, that sessions are stored only as the program ends (`StoredAtEnd`) and that from then on an index that is not whole is being
written (`IndexKept`). In the mapping of the refinement each step of a datastore is a step of `App`, a stutter, or a write by
another program; what decides which is the step at which the lock is taken and the one at which the index was read.

**Tabs and views.** `TabbedContainerProofs` has a lemma for every operation of `Tabs` (what becomes of the tabs, the position, the
visible widgets, the parents and the indices), on top of two about inserting into and removing from a sequence. From them
follow `TypeCorrect` and `PlacesAreFollowed` for one container, and what the views rely on: insertion
anywhere, switching, closing the current tab and renaming keep a box *good* (exactly the current tab is visible,
parents and indices are right). That the widgets have different indices is what makes visibility, said by position, a
statement about sets (`VisibleSet`), and these lemmas short.
`SessionViewProofs` uses them at both levels. It first shows that the operators of `SessionView`'s instances of
`Tabs` are those of its instances of the lemmas (`SessionTabs`, `PropTabs`). Its invariant is that both levels are good, every
displayed object view has tabs, titles are slugs, and the focus is the current prop view of the current object view,
nowhere, or on what is gone. The indices are needed for the titles, which a command refreshes by index; the position for the focus.
All four properties follow: `TypeCorrect`, `ViewsStayConsistent`, `TitlesAreSlugs`, `FocusIsDisplayed`.

**Grids.** `GridsProofs` proves every property of both grids, for any columns, types, sizes, rows, fields and windows. It begins with
what an operation of `Grid` returns for any record: what `set_cursor` and `adjust_view` bound and show, what an insertion and an
erasure do to rows and selection, and what the keys of `BasicGrid` leave alone (`GridKeyKeeps`).

For the schema editor (`SchemaTyped`, `SchemaSizesAgree`, `SchemaColumnsKept`, `SchemaModifiedExact`, `SchemaErasesAll`,
`SchemaInsertKeeps`) the properties are inductive but for three things, which `IInv` adds. The columns of the schema are numbered by
their place: without it a reset would not give back rows in the order `ColumnsKept` asks for. The grid has five columns, so that
the cursor is on a cell that has a name in `CellAt`. And while the field is open there is a row and the cursor is in the column of names:
`AcceptField` marks the cell the cursor is on, and marks are exact only if that is the name.

For the metadata (`MetadataTyped`, `MetadataMirrored`, `MetadataShown`, `MetadataRemoves`, `MetadataKeepsCell`) the invariant `MInv` adds
`FieldOK`: an open field has a text that could be typed into its column, and, unless it is dynamic, the cell under it is of
its type. The first keeps a renamed field's name a name; the second is why a text read back by the remembered type
is the value it was opened with. `MetadataKeepsCell` holds for any translations: a cell that is opened by enter and accepted with its own text is
kept if the translations give back its value (`ReadsBack`: Hord prints some numbers as others, and shows no path for what is gone), and, whatever is typed and however
texts are read, a string stays a string or becomes null, and an object ID stays one or becomes null.
The window needs the cursor's row and `fit` to be natural numbers, which is where `Fits \subseteq Nat` is used.

The loops over the selected rows are recursive functions over `0..n`, and what they do is proved by induction over their turns: there is
an invariant of a turn (rows and grid stay in step, no selected row is left behind the index; `Survives` says which fields are left, in what order, and where they were),
and the set of turn numbers for which it holds is shown to be all of them. The library's induction theorems take a predicate as a
parameter, which the provers here cannot be given; `Induction` says the same of sets. It follows from the well-foundedness of
strict inclusion on finite sets (`FS_StrictSubsetOrderingWellFounded`), as a set of naturals that lacks a number has a smallest segment that ends at one it lacks.

**Command line.** `CommandLineProofs` proves every property of `CommandLine` for any set of grids, any widths and any bound on
the text: `TypeCorrect`, `KeysGoToOne`, `PromptIsModal`, `LocationIsOfFocus`, `CaretIsAtCursor`. Its invariant adds
`FocusLive` (a focused grid exists and is the one the location tells of; `LocationOfFocus` alone would
not survive a new view) and `FieldsShown` (the cursor of the field in use is shown, fields not in
use are empty). The lemmas on fields come first, `UpdateViewShows` above all: after `update_view` the
cursor is shown whatever was shown before. Steps are grouped by what they do: move the focus
while no widget has input control, open a field, change it, close it.

**ConfigNode.** `ConfigNodeProofs` proves `TypeCorrect`, `IndicesAreFilled` and `ValidIsUsable` for any set of session names. The
invariant says which calls of `import` can be under way at once (`Shape`), that a node has only entries it declares, of types the
code lets through (`Typed`), that the sessions fill the indices below their count (`Counted`), and that nothing is under way once an
outcome is known (`Returned`).

Only model-checked: `QuitEnds`, a liveness property under fairness, which this prover cannot handle.

## Not modelled

* Entries of a ConfigNode that collect values (no entry of App does), and the tree of program arguments, which the same `import`
  reads: `ReadArgs` and `LoadConfig` of `App` say no more than that it succeeds or fails. `--no-auto` is read and never consulted.
* The message of the status line and the descriptions put into it; texts of several lines in a field, whose
  cursor movements are Beard's.
* The grid of table data: its edits go to a signal nothing binds.
* The way of a notification down the views: the views have no state of their own that it changes, and an object has at most one
  view (`AddObjectView`), so what it amounts to is in `TitleChanged` and in the notifications of `MetadataGrid`.
* What Beard and Hord do inside; geometry other than the window on the rows and the width of a field; rendering; the wording
  of messages.
* Driver setup (`init.cpp`), logging, error types, serialization: no state the properties tell apart.

## Plan

Done, in the order of importance: the datastore with its abstract specification, the refinement and its proof; the life of
the program and its composition with the datastore; tabs and views with their proofs; grids; the configuration;
the command line; the proofs of all of these.

Left, in this order:

1. More of what the loops and the refinements rest on as theorems about operators: which rows `EraseLoop` leaves (the properties that are
   checked say which columns it keeps and that nothing stays selected; `RemoveLoop` has the full statement).
2. `ConfigNode` for the arguments as well, should an option with several values be added.
3. Fields of several lines, should the behaviour of Beard's cursors be documented.
