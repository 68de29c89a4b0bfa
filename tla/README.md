# Verification of dvd2xbox

dvd2xbox copies discs (games, movie DVDs, audio CDs, CDs with files, raw images) from the drive of
the original Xbox to its hard disk, to SMB shares and to FTP servers. This directory holds TLA+
modules that model the core of the program, TLC configurations that check them on small
instances, and TLAPS proofs of the theorems that hold for instances of every size.
`PROJECT.json` is the machine-readable index: components, runs, mutants, the source lines behind
each definition, findings, hazards and theorems.

## 1. The system

### Components

| Component | Source | State | Operations |
|---|---|---|---|
| copy wizard | `dvd2xbox.cpp`, `CXBoxSample::FrameMove` | `mCounter` (the screen), `type`, `p_fcopy`, `current_copy_retries`, `m_Caller`, `generalError` | one `case` per screen, once per frame |
| thread base | `xbox/Thread.cpp`, `CThread` | handle, `m_bStop`, `m_bStopped` | `Create`, `staticThread`, `StopThread` |
| copy thread | `dvd2xbox/d2xfilecopy.cpp`, `D2Xfilecopy` | `ftype`, source and destination, `FAILlist`, `RENlist`, `excludeList`; static: `b_finished`, `copy_ok`, `copy_failed`, `copy_renamed` | `FileCopy`, `CopyFailed`, `Process`, one recursive walk per kind of disc, `IsoRipper` |
| file factory | `dvd2xbox/filefactory/`, `d2xfilefactory.cpp` | an open file | `FileOpenRead/Write`, `FileRead/Write`, `CreateDirectory` |
| naming | `dvd2xbox/d2xtitle.cpp`, `d2xutils.h` | none | `getFatxName`, `getvalidFilename`, `GetNextPath` |
| drive status | `dvd2xbox/d2xdrivestatus.cpp` | static `type`, `mediaReady`, `dvdsize` | a thread that polls tray and disc |
| ISO 9660 | `xbox/iso9660.cpp` | directory tree; per open file a position and a ring of sectors | `OpenFile`, `ReadFile` |
| disc browser, file manager | `d2xdbrowser.cpp`, cases 20-105 | two panes with a selection each, the active one, `m_Return` | copy, delete, rename, make a directory, change drive, ACL |
| keyboard | `dvd2xbox.cpp`, case 70 | `m_bConfirmed`, one for all screens | ask for a name |
| game manager | `d2xgamemanager.cpp` | an item file and its list in memory, cursor and window | scan, add, delete, page |
| light | `d2xSmartXXRGB.cpp` | current and last status, transition | set by several threads, played by one |
| autodetection | `d2xxbautodetect.cpp` | socket, map of servers with their life | a thread that pings |
| log | `d2xlogger.cpp` | static file object | `WLog`, `enableLog` |
| network | `xbox/Network.cpp` | link state | `Initialize`, polling in the main loop |
| the rest | settings, ACL, patcher, encoders, FTP and SMB clients, user interface, LCD | | see `PROJECT.json`, "components" |

### How they interact

The main loop runs a frame again and again; the number `mCounter` says which `case` of
`FrameMove` is executed. To copy, the wizard stops the drive-status thread (`StopThread`, an
unlimited wait), creates a `D2Xfilecopy`, **starts its thread and then** calls `FileCopy()`, which
fills in the members that the thread reads. From then on the two share static members without a lock: the
wizard polls `b_finished` in case 5 and reads the counters for its report, the thread writes them.
At the end of every frame the loop looks at the global `generalError`, which handlers and the copy
thread may set, and if it is set diverts to the error page, whatever the screen was. When the copy is over the wizard
may offer a retry (case 8: the same object, a new thread, `Create()` before `CopyFailed()`), deletes the
object, starts drive status again (case 6) and shows the report (case 7).

The copy thread walks the source recursively. Each walk renames what FATX does not allow, leaves
out what the ACL excludes, descends or copies, and keeps count. The retry goes through the list of failures the
first pass kept. Reading a CD goes through the ring of sectors in `iso9660`; an image
is written by `IsoRipper` in slices, with chunks that get smaller around a bad sector.

### What is hard about it

* Unlocked sharing between main loop and threads, with starts before initialisation.
* The end of a thread reported (`OnExit`) before the thread has ended; objects deleted in between.
* Handles that are overwritten when a thread object is started twice.
* Errors flagged by one thread that redirect another in the middle of a protocol.
* A report kept over a pass and its retries, in counters and in lists that must agree.
* Distinct names that become one on FATX.
* Ring buffer, offsets, slices: the usual boundaries, with read errors in between.

`PROJECT.json`, "hazards", lists them with their lines and the properties that watch them.

### What makes each component correct

* Wizard and threads: one copy at a time; no object is deleted under its thread; the drive is left alone
  while a copy reads; the report no longer moves when it is shown; a finished copy is noticed; a flagged error
  is shown; after a copy the next disc is detected again.
* Copy thread: report and log agree; what is reported as copied is there; a retry spoils nothing
  and only turns failures into copies; every pass ends.
* ISO 9660: the bytes of the file, in order, complete unless a sector is unreadable, and no more than that;
  once open, it reads a sector off the disc once.
* ISO ripper: the slices together are the disc, with zeros for bad sectors and for no others; an
  image reported without failures is whole; the rip ends.
* Drive status: the type told is that of the disc in the drive; an open tray is told in the end.
* Light: whoever waits for a transition to end gets on.
* Game manager: the count in the header and the items agree again after whatever a power-off has done, the cursor is on a
  row that is shown, a scan finds what is there and forgets what is gone, an entry is only lost for a reason.
* File manager: what is selected belongs to what the pane shows, only what the user was asked about is
  deleted, an item leaves the selection when it was copied.
* Autodetection: a server is listed while it answers. Log: no write to a closed file. (Not modelled.)

## 2. Modules

| Module | Models | Kind |
|---|---|---|
| `CopyWizard` | the wizard's screens, copy threads, tray threads and what they share | state machine |
| `CopyWizardProofs` | theorems about it | proofs |
| `MCCopyWizard` | instances | model checking |
| `BackupLedger` | what a backup with retries promises about each file | abstract specification |
| `CopyJob` | the walks, the report, names, the retry | state machine, refines `BackupLedger` |
| `CopyJobProofs` | types, report, refinement | proofs |
| `CopyPathProofs` | destinations, what a retry spares | proofs |
| `MCCopyJob` | a small disc | model checking |
| `IsoFile` | the sector ring and the two loops that copy from it | state machine |
| `IsoFileProofs` | theorems about it | proofs |
| `IsoRipper` | image slices | state machine |
| `IsoRipperProofs` | theorems about it | proofs |
| `MCIsoRipper` | instances | model checking |
| `GameManager` | the file of games, the list, the scans, the window | state machine |
| `GameManagerProofs` | theorems about it | proofs |
| `MCGameManager` | two games and what else an entry may hold | model checking |
| `FileManager` | both panes, cases 20 to 105, the keyboard, copies of several items | state machine |
| `FileManagerProofs` | theorems about it | proofs |
| `MCFileManager` | a partition and a disc | model checking |
| `SmartLight` | the light's thread and `SetRGBStatus` | variables and actions, no specification of its own |
| `DriveStatus` | the tray thread, the main loop that stops and starts it, `StopApp`; composed with `SmartLight` | state machine |
| `DriveStatusProofs` | theorems about both | proofs |
| `MCDriveStatus` | two kinds of discs, three maps of the light | model checking |

### CopyWizard

`mCounter` takes the name of a screen (`"dest"` is case 13 and 501, `"confirm"` 3 and 502, `"copying"` 5,
`"post"` 6, `"report"` 7, `"retry"` 8, `"error"` 1000, ...) or of a point inside a handler
(`"stop"`, `"join"`, `"create"` in cases 4 and 510, `"fcReset"`, `"fcSource"`, `"fcType"` in
`FileCopy`, `"cfType"`, `"cfReset"` in `CopyFailed`). A frame that touches nothing shared is one step; a
handler that shares memory with a thread has a step for each group of accesses a thread can tell apart.
`Goto` is the end of a frame with its check of `generalError`. `b_finished` and `copy_failed` are the
statics, `live`, `ftype` and `fsource` the members of each object. A copy thread goes through `created`,
`copying`, `leaving` (before `ftype = UNKNOWN_`), `exit` (before `OnExit`) and `stopping` (before
`ExitThread`). A thread that has ended stands for the next one that `Create` will make, a deleted object for the next one
that `new` will return, so the finite sets bound how many exist at a time and not how many there are in a
behaviour. `dHandle` is the handle that `CThread::Create` overwrites; a second
tray thread is a second member of `Det`. `m_Caller` begins with an arbitrary value, since nothing
initialises it; the value `"nowhere"` is a screen that no case handles.

What the files of a copy do to the report is only "a first pass may count a failure, a retry may take some
back", which is what `CopyJob` does in detail. The remote-control mode, LEDs, logging, priorities and `gBuffer` are left out.

### BackupLedger and CopyJob

`CopyJob` turns the recursion of `DirUDF`, `DirDVD`, `DirISO` and `CopyDirectoryGeneric` into a stack of
directories with what is left of each. The four walks have one shape and differ in three ways which the
model keeps: whether they keep `FAILlist` and obey `excludeList` (`KeepsLists`), how reading and
writing may go wrong (`Reads`, `Writes`) and whether the names are adapted to FATX (`Renames`). A file's
content is abstracted to which file it is and whether it is whole. The log, which the code writes line by line,
is the variable `logged`: the properties compare it with the counters and the disk. The tree, its names,
`getFatxName` and the names that `getvalidFilename` tries are constants. `BackupLedger` only knows a
status for each file: a first pass decides each once, a retry turns failed into copied, and
between passes nothing changes; `ImplementsLedger` maps the log to it.

### IsoFile

A byte of the disc is a pair of sector and offset. The memory of the ring is modelled byte by byte,
because the code places slot i at *byte* i (`m_pBuffer[SectorInCircBuff]`), so a sector read into one
slot overwrites most of its neighbours. `OpenFile` reads the first sector to slot 0 to find out its mode (`probed`), in mode 1
and then in mode 2; the ring is not told, so `ReadFile` reads that sector again. `fetched` are the sectors read into the
ring. `InOrder` shows that what is delivered is right nevertheless: a sector
is always delivered in the very step it is read, or as the last one read. `Bytes2Copy` (the code's
`dwBytes2Copy`) ends at the end of the sector or of the caller's buffer, never at the end of the file.

### IsoRipper

The unit is a sector. `stack` holds the calls of `IsoCopySlice` in progress with their
chunk level, offset and remaining length; the file offset is kept by the caller and advanced after the inner call
returns. A write may fail after any part of a chunk.

### GameManager

`stats` is the file of games with the count in its header, `list` is `global_list`. `mCounter` is `"750"`, `"755"`
(the full scan), the three parts of case 757 and `"760"`; a scan takes one directory (`todo`) per step, and
`Ftp` changes directories between any two of them. An entry is the path of a game or `Junk`, which no directory has.

The power may go at any moment (`SwitchOff`), also in the middle of `addItem` and `deleteItem`. `addItem` writes the header with the
new count and then the item: one step (`Added`), which `CutAdd` may leave after any part (`AddedTorn`): a new file without
a header, or a count that is ahead of the items. The program notices neither. From a file without a
header it takes any count (`Counts`); behind a count that is ahead the next `addItem` leaves a hole, whose
bytes are any entry (`Written`); and whatever goes by `global_list.header.total_items` reads past the
vector, where anything may be (`AsRead`) or the program stops, which looks like a power-off. `deleteItem` copies as many items as
the header says to a new file, the last one again where `fread` fails (`Reads`), and moves that over the old one: `Deleted`,
or, cut, `Torn`. `leaked` is the stream that `PrepareList` forgets to close for a file without items; from then on the
file can be neither replaced nor deleted. `Covers` is the comparison by prefix of `isPathListed`. `Sorted` allows any order of
equal titles, as the comparison with `<=` decides nothing about them. `Added` appends without a look, so a game copied
twice is in the file twice. Taken for granted is that writes succeed (the code does not look), that one header or
item reaches the disk whole or not at all, and that `MoveFileEx` replaces the file at once.

### FileManager

A path is a sequence of names, `disk` maps the paths there are to their kind, and a pane is a record of what
`D2Xdbrowser` keeps: the path, the drive it last listed (`url`), the way back (`vec_path`), the list, cursor, selection and
the `info` of its last frame. `Process` is `processDirBrowser` for one button; `Frame21` is a frame of case
21, which gives the button to a pane to be renewed *and* to the active one. A screen that acts is one action;
`Create()` and `FileCopy()` are two, so that the thread may begin in between. A `D2Xfilecopy` whose thread is
created again, or which is deleted, leaves its thread behind: `orphans`. Its end sets the same `b_finished`.
`DiscNoticed` is the end of a frame that finds `type # prevtype`. `Go("off")` stands for a dangling iterator that kills the
program; the model also takes the outcomes in which it goes on. `shown`, `tried` and `sound` are read by
properties only.

### SmartLight and DriveStatus

`SetRGBStatus` is three steps: the done flag, cleared outside the critical section (`Asks`), the two halves of what
it does inside (`SetEnters`, `SetLeaves`), which the light's thread sees separately since it takes no
lock to read `s_RGBs` and `strLastTransition`. A frame of the light is `Look`, the branch of its
transition, and `Done` when that ends. Colours are counted in steps to go.

In `DriveStatus` the tray is the environment, `Poll` is `GetTrayState` and `GetDriveState` up to the
light, `DetectBegins` and `DetectEnds` bracket the reading of the disc, `main` is where the main loop is: idle, reading a disc
itself (BACK with detection off), joining the thread for a copy, copying, and the way to the end of the program, `StopApp`.
`m_dwLastTrayState` lives on while the thread is stopped. `CopyWizard` models the same thread only as far
as it probes the drive, and in return two of them at once.

## 3. Runs

`tlc -workers 2 -config <cfg> <module>`; each takes from seconds to about two and a half minutes (`files`).

| Run | Shows |
|---|---|
| `wizard` | all interleavings of the main loop, two copy threads and two tray threads: `OneCopyAtATime`, `NoUseAfterDelete`, `DetectorQuiet`, `MenuHasDetector`, `ReportStable`, `LateStartFinishes` |
| `wizard_errors` | DVDs, where an error may be flagged anywhere, and a user who turns detection on and off: `ErrorShown`, `StopReturns` |
| `wizard_retry` | *violation*: a retry that copies the whole disc |
| `copyjob` | copies of every kind with their retries: `ReportMatchesLog`, `GameIsThere`, `RetryKeepsCopies`, `PassEnds`, `ImplementsLedger` |
| `copy_retry` | *violation*: a retry that forgets the failures of a DVD |
| `copy_names` | *violation*: a renamed file overwritten by its namesake |
| `isofile` | the ring under read errors: `InOrder`, `ShortOnlyByUnread`, `NeverLonger`, `OnlyFirstReadTwice`, `CopyEnds` |
| `ripper` | images with bad sectors and full targets: `SlicesExact`, `WholeImage`, `RipEnds` |
| `games` | the file of games under scans, copies, deletions, FTP and power-offs at any moment: `CountRestored`, `CursorOnShownItem`, `ScanFinds`, `ScanForgets`, `KeepsOthers` |
| `files` | two panes, a disc taken out at any time, copies of one and of two items: `SelectionInPane`, `DeletesWhatWasShown`, `TakenOffWhenCopied` |
| `files_keyboard` | *violation*: a copy of several items cut short by the keyboard |
| `drive` | tray, tray thread, main loop and light: `TypeOfDisc`, `TrayOpeningTold`, `StopAppReturns` |

The violations are disagreements between the code and what its README or comments say; `PROJECT.json`,
"findings", quotes both sides.

### Bounds, and why they are enough

* Wizard: two copy threads, two objects and two tray threads. Two are what it takes to see one that has
  not quite ended meet its successor; `NewCopy` and `Create` need a free one and simply wait for it, which
  the code need not. For one copy at a time, deletion and the quiet drive the proofs do away with the bound. `MaxFailed` is 1 (2 in the
  violations): the wizard only asks whether it is positive. `AutoCopyRetries` is 0 or 1, and the count of
  retries stops above it (`RetryCap`), where the code can no longer tell the numbers apart.
  `wizard` has two discs that flag no error: a game, with the retry dialog, and an audio CD, without.
* Copy job: four files in two directories, of which two get the same FATX name, one in the subdirectory
  bears it too, and one is excluded. Walks do not interact but through the destination, so one
  level of nesting and one collision are the cases there are. Five pairs of source and target stand for
  the walks and the ways they fail. `WritesFail` is FALSE in the runs: where the result of a write is
  ignored no property of a reported copy can hold, and that is plain from the code.
* IsoFile: sectors of 2 or 3 bytes, three slots, a caller's buffer of 4 bytes that ends inside a sector,
  at its end and beyond, files of up to 9 bytes (up to five sectors, so that the ring wraps), starting at
  three places. The code's numbers have the same proportions only qualitatively: the buffer is larger than a sector, the
  ring larger than two slots.
* IsoRipper: up to 11 sectors in slices of 5 (two slices and a bit), three levels of chunks, every set of
  up to two bad sectors, so that two fall into one chunk, into two, and on both sides of a slice's end.
* Games: two, the path of one begins with the path of the other, and one other entry. Copies, and additions that are cut, go on while the
  file has fewer than three (`MaxItems`), which allows a game to be entered twice, a hole before it and a count two ahead; a scan adds
  what it misses beyond that. A window of two rows, so that three scroll. A header that was not read counts 0 or 1 (`MaxGarbage`). Directories
  change and the power goes at any time, without a bound. The proofs do away with all of this.
* Files: the disc with two files, a partition with a directory that holds one; seven buttons (`MaxPresses`, enough to
  select two items in one pane, go somewhere in the other and come back), two choices in the
  menus, one exchange of the disc. The first pane goes down, the second back (`Presses`), since the panes
  are alike but for which one is looked at first. `MaxLevel` and `MaxDepth` bound how deep a pane and a path go. No button
  falls on the frame that renews the other pane: there the code gives the button to both.
* Drive and light: with the light, the tray moves once and the main loop sets no status but the last; without it, five
  movements (which take a disc out, exchange it and open again) and three choices. What the light has to do with the
  drive is only who sets which status, so the two need not both be large. A fade has one step (`MaxSteps`): its first,
  its last and the one too many. The three maps of the light have all six transitions and leave out two statuses; detection, copies and
  three threads that set the light are unbounded.

`CHECK_DEADLOCK FALSE` stands in the wizard's and the copy job's configurations, since both may really stop:
the wizard shuts the console down after a copy if the settings say so, and a screen number that no case handles
does nothing; a job of the model that is done need not be followed by another. The other runs check it; where the program
ends (`Stopped`, `OffForGood`) or polls (`TransitionAwaited`) a module has a stuttering step that says so.

### Fairness

All fairness is weak. The main loop runs without end and the kernel schedules all
threads, so a step of the main loop that needs no key, a step of a copy thread and a step of a tray thread are each taken in the
end. No key is ever demanded, no error, no failing file; the automatic retry needs no key and is
in the main loop's condition. In the other modules the copy thread runs on, and which copy comes next is
the user's choice. Waiting for a thread is the guard of `JoinDetector`; nothing lowers `m_bStop` meanwhile, so weak
fairness is enough for `StopReturns`.

In `DriveStatus` the light's thread, each thread that is setting a status, the tray thread and the steps of the
main loop that wait for nobody's choice go on. The light has the lowest priority, but every other thread sleeps in
each turn of its loop, so it gets its time. Nobody has to move the tray, press a button or end a copy.
`TrayOpeningTold` speaks only of a thread that runs and a tray that stays open. `FileManager` and
`GameManager` have no liveness properties: the scans go on with every frame, and what does not (case 66
waiting for ever, below) is nothing the code promises.

## 4. Proofs

`tlapm <module>` for `CopyWizardProofs`, `CopyJobProofs`, `CopyPathProofs`, `IsoFileProofs`, `IsoRipperProofs`,
`GameManagerProofs`, `FileManagerProofs` and `DriveStatusProofs`. Every type invariant, safety invariant and action
property of the runs is a theorem, as is the refinement of `BackupLedger`.

**Wizard.** `TypeCorrect` is the type invariant with `PointerInv`: steps that use `p_fcopy` happen
at points where it is an object. The other theorems are proved for the jobs that flag no error
(`NoErrors`): with an error the wizard leaves the copy behind its back, and a second copy may start. None of
the properties is inductive: that two threads are not busy together follows from where the main loop
is. `CopyInv` says it: a thread is busy only at points between `Create` and the end seen in case 5, on the object
`p_fcopy`, which is live, and there is at most one; and once `FileCopy` has reset `b_finished`, `b_finished` true
means that no thread is busy. That is where the resets in `FileCopy` and `CopyFailed` matter: `b_finished` left over from
the last pass would let case 5 go on under a running thread. `PlainInv` says that no error is
flagged, so `Goto` goes where it says. `DetectorInv` says that a tray thread that has not ended is the
one behind the handle, and that there is no handle from `create` to `post`; it assumes that
the user leaves the setting alone (`~Toggles`), because switching detection on makes a second thread.
`OneCopy`, `ObjectOutlivesThread` and `QuietDrive` follow for any number of threads and objects.
`MenuWatched`, detection in the main menu, needs `WatchInv`: on every screen between two copies no thread is asked to
stop, so a tray thread ends there only because the setting is off. It holds with `Toggles` too.
`ReportStands`, an action property, is again `CopyInv`: on the screens that show or keep the report no thread is busy.

**Copy job.** `JobTypeCorrect`, then `ReportCorrect`: the counters are the cardinalities of what the log says.
For that a file must not be dealt with twice, which is `WalkInv`: the frames of the stack are distinct directories,
what is left of a frame is in that directory and has neither been logged nor renamed, and a
directory's children are untouched until it is entered. `ListInv` ties `FAILlist` to the log: in a walk that
keeps it, its domain is the set of failed files, and in a retry what is left of it and the new list are still failed.
`JobImplementsLedger` needs the same invariant: a step of the walk decides a pending file because an entry still in a frame
has not been logged. The trees are arbitrary finite ones, the naming is arbitrary.

**Drive and light.** `TypeCorrect` needs `OwnerInv`: who holds the critical section is setting a status, so that
`SetLeaves` copies one. That the fades stay between their colours is `Colours`. `TypeIsThatOfTheDisc` is about what the
thread remembers (`m_dwLastTrayState`) against what is in the drive. `SeenInv`: the disc it remembers is there, unless one left since it
last saw the tray open or moving. `AnswerInv`: while it acts upon an open or empty tray it remembers no disc.
`ReadInv`: such a disc was not touched while it is read, so what is read is its type. `ToldInv` is the property carried
through the times when the thread is stopped or the tray moves; the main loop starts no second thread
meanwhile because of `JoinedInv`. Kinds, threads, statuses, maps and bounds are arbitrary.

**Destinations and retries** (`CopyPathProofs`). `GameIsThereCorrect` and `RetryKeepsCopiesCorrect` rest on what no line of the
code says: entries dealt with have destinations of their own (`Apart`). `PlacesInv` gives it, since an entry's destination is in its
parent's and a directory of the copy holds nothing but what was put there for the directory of the source; `DiskInv` says
so of the disk, against which `getvalidFilename` looks for a free name. `RetryInv`: both lists of failures have the
destinations that the log has. The theorems assume `NamesApart` (names in a directory differ, and no name that FATX
allows is one that is tried for another entry) and `TriesSuffice` (there are more names to try than entries). Both hold in the
instance of `copyjob`. Without `NamesApart` `GameIsThere` is false: that is the run `copy_names`. `GameIsThereCorrect` also assumes
that the disk does not run full (`~WritesFail`), which the code would not notice; a retry spares the copies even then.

**ISO 9660.** Both loops read from the beginning to the end, so the ring, whose slots overlap, never holds more than one sector, the
one the position is in (`RingInv`), and a sector read is beyond those read before (`FetchInv`): `InOrderCorrect`, and, as
the one sector `OpenFile` has read is the first, `OnlyFirstReadTwiceCorrect`. `LengthInv` adds up what was delivered and written to the position until `CopyISOFile` cuts off what is beyond
the file (`NeverLongerCorrect`). `EndInv` says why `ReadFile` may return nothing, and with it
`ShortOnlyByUnreadCorrect` is inductive. All sizes are arbitrary, the ring has at least two slots.

**ISO ripper.** `Nested`: a call of `IsoCopySlice` works in the chunk its caller is at. `Progress` ties offset, number and count of
slices; with it comes `WholeImageCorrect`. `Current` says that the slice's file ends where the innermost call is, with the
disc's contents up to there, while the calls around it have not moved yet; so a call that returns has copied what its
caller then skips: `SlicesExactCorrect`. That assumes `DistinctNames`, false for a title that leaves no room for the part number.

**Game manager.** `WindowInv` carries the window: a list longer than the screen has the cursor in the row `crelbrowse`, a shorter one
never scrolls though `crelbrowse` may run ahead. `CursorCorrect` follows from it. `CountCovers`: a count is never behind the items,
since `addItem` writes it first; so the item of an `addItem` goes behind all others, however far, and what `deleteItem` writes has
as many items as it counts: `CountRestoredCorrect`. `ScanInv` says what a scan has achieved half way: if the list it began with is
whole (`WholeList`) and no file was left open, so is the file (`AgreeInv`), and no hole brings an entry back; what was looked at and stayed is in the
file (`FoundInv`), what has gone is in the list that is still to be looked at (`GoneInv`). What `deleteItem` keeps is a sequence whose k-th element is the one with k elements kept
up to it, so the proof that it holds the other items counts (`Without`, `Kept`, `Rank`) and needs no induction.

**File manager.** `SelectionInPane` holds only at the screens that act, and the reason is in case 21: a selection of another
directory occurs only there, in a pane that is to be renewed, and the frame that renews it empties the selection (`PaneInv`).
Such a pane arises when another drive is chosen (`ToDrive`). An exchange of the disc makes none: `resetToDevice` empties the
selection, except in a pane without a way back, which shows the list of drives or a drive's first directory (`PaneOK`), so that
its path stays what it was.
`ShownInv`: between the question of case 22 and the deletion of case 23 the selection only shrinks, or loses what was on
the disc, which is not deleted; it needs `InfoInv`, that the item under the cursor of a pane on the disc is on the disc. `SoundInv`: in
a copy of several items the thread copies the item at `iselected_item`, and `b_finished` is that thread's, unless it read its
orders too early (`sound`). `Process` is proved for any button and any pane as lemmas, one per movement.
`FileManagerAssumption` says what FATX gives: names in a directory differ by more than their case (`Rank`), and
paths on disk and discs are no deeper than `MaxDepth`.

Assumptions are the ASSUMEs of the modules (the constants have their types, trees and sets of names are finite) and, as the
theorems state them, `NoErrors` and `~Toggles` in the wizard, `NamesApart`, `TriesSuffice` and `~WritesFail` in the copy
job, `DistinctNames` in the ripper.

**Only model-checked.** All liveness (`LateStartFinishes`, `ErrorShown`, `StopReturns`, `PassEnds`, `CopyEnds`,
`RipEnds`, `TrayOpeningTold`, `StopAppReturns`), which needs fairness and ENABLED. And the wizard with errors and with a
user who changes the setting, as far as the theorems exclude it: there the run `wizard_errors` checks `ErrorShown` and
`StopReturns`. No module uses a RECURSIVE operator; sortings are given by the place of each element
(`Place` in `FileManager`), not by recursion, so that the provers can follow them.

## 5. Known limits of the code

What the models show beside the findings, and no document contradicts. The properties say which of these they leave out.

* Wizard: after an error in a copy case 6 is skipped, and the main menu has no tray thread until the next copy. A thread
  that ends before `FileCopy()` resets `b_finished` is waited for for ever.
* ISO 9660: the first sector of every file is read off the disc twice (`iso9660.cpp:554`).
* Copies: a file copied from a CD to a share is padded with what follows it on the disc if its size is a multiple of
  the sector (`d2xfilecopy.cpp:480`, `iso9660.cpp:689`). With a long title all slices of an image get one name, since the
  part number is cut off (`d2xfilecopy.cpp:2149`, `d2xutils.h:205`). The retry of a copy to a share writes nothing to it.
* Game manager: a game is not found while the path of another in the list begins with its own; a
  game copied twice has two entries; a file without items stays open and can then be neither replaced nor
  deleted; the entry of a game is deleted even if its directory could not be; `<=` is no strict order for the sort.
  After a power-off in `addItem` the list reads past its end, the cursor may stand on a row without an item, and the next addition leaves
  a hole that may hold an old entry: `ScanFinds`, `ScanForgets` and the item of `CursorOnShownItem` are
  promised for whole lists, and `KeepsOthers` leaves out deleting in a row that has no item.
* File manager: after a change of disc in a copy of several items, `erase()` gets a dangling iterator (`TakenOffWhenCopied` leaves
  out frames in which such a change waits to be noticed). A thread that starts
  early copies the last item again, or its end is forgotten and case 66 waits for ever; the end of a thread left behind
  ends the wait for another. In a pane that lists nothing (an empty drive) `info` keeps the last path, and a new
  directory is made there. `ProcessACL` erases what its iterator stands on. A directory copied into itself is descended
  into until the path is too long (left out of the model). Labels are sorted apart from names (the model has no labels).
* Drive: a disc exchanged between two polls, while another is read or during a copy, goes unnoticed. A tray
  found empty that held a disc is never told. A disc read by hand (BACK with detection off) keeps its type when the tray is opened
  after it was already known to be open; with an empty tray `GetCdInfo()` finds nothing and is used all the same
  (`d2xdrivestatus.cpp:216`). Two tray threads on one object (possible after detection is switched off and on) are in
  `CopyWizard` only.
* Light: `SetLastRGBStatus` toggles between two statuses; an old transition may set the done flag of the new one,
  so that `StopApp` returns before the last colour was shown; "none" may be skipped for a status set during
  its frame; "switch" and a misspelt transition are never done and `StopApp` waits for ever, which
  `StopAppReturns` leaves out; a fade between equal colours divides by zero (`d2xSmartXXRGB.cpp:142`).

## 6. Not modelled, and why

Autodetection and the log: small, apart from everything else; their races are plain from the code and listed as
hazards. Network: its transitions are decided by the console's library. User interface, sound, LCD and LEDs (output), settings
files (I/O), ACL rules and patches (text and byte processing without shared state), encoders, FTP client, CD database and
vendored libraries (not this program's, or a protocol client), unlock (hardware).
Inside the modelled parts: `replaceVideo`, patching of executables, progress numbers, audio CDs, video
CD images and the FTP walks; `smb:` and `ftp:` paths and the viewers of the file manager; sizes and saves in the game
manager, writes that fail there (a full disk), and the count that wraps at 65536 entries. What `gBuffer` is when an early thread uses it is undefined and left out.

## 7. Plan

Done: `CopyWizard`, `BackupLedger`, `CopyJob`, `IsoFile`, `IsoRipper`, `GameManager`, `FileManager`, `SmartLight` with
`DriveStatus`, and the theorems of section 4. Next, in this order:

1. `AutoDetect`: the map of servers with their life, the thread that pings and the main loop that reads it.
2. Audio CDs and FTP walks as further jobs of `CopyJob`; two tray threads in `DriveStatus`.
3. `Logger`, then `Network` and the services it starts.
