------------------------------- MODULE CopyJob -------------------------------
(***************************************************************************)
(* What a copy thread does with the files: D2Xfilecopy::Process() for a    *)
(* game (FileUDF, DirUDF), a DVD (FileDVD, DirDVD), a CD with files        *)
(* (FileISO, DirISO) and for copies from or to a share (CopyGeneric,       *)
(* CopyDirectoryGeneric), then the retry of what failed                    *)
(* (CopyFailedGeneric).                                                    *)
(*                                                                         *)
(* The recursion over directories is a stack of frames.  One step handles  *)
(* one directory entry as the loops of the four functions do: rename,      *)
(* exclude, descend or copy.  The bytes of a file are abstracted to what   *)
(* is left at the destination: the whole file or a part of it.             *)
(*                                                                         *)
(* Left out: replaceVideo (the setting is off), patching of .xbe files,    *)
(* progress, audio CDs and images.                                         *)
(***************************************************************************)
EXTENDS Naturals, Sequences, FiniteSets

CONSTANTS
  Files, Dirs, Root,  \* the source tree ...
  Parent,             \* ... the directory of every item but Root ...
  NameOf,             \* ... and its name there
  Names,
  Fatx,               \* getFatxName: every name made fit for FATX
  Tries,              \* names getvalidFilename tries instead of one that is not
  Excluded,           \* items excludeList names (ACL rules)
  Jobs,               \* the [from, to] pairs to copy
  WritesFail,         \* whether the target may run out of space
  ListingFails        \* whether a directory may be unreadable

Items   == Files \cup Dirs
Sources == {"game", "dvd", "iso", "net"}
Targets == {"hdd", "net"}

ASSUME JobAssumption ==
  /\ IsFiniteSet(Items)
  /\ Files \cap Dirs = {}
  /\ Root \in Dirs
  /\ Parent \in [Items \ {Root} -> Dirs]
  /\ NameOf \in [Items -> Names]
  /\ Fatx \in [Names -> Names]
  /\ Tries \in [Names -> Seq(Names) \ {<<>>}]
  /\ Excluded \subseteq Items
  /\ Jobs \subseteq [from : Sources, to : Targets]
  /\ WritesFail \in BOOLEAN /\ ListingFails \in BOOLEAN

VARIABLES
  phase,    \* idle, copying, done, retrying
  job,
  stack,    \* the directories being copied, with what is left of each
  copy_ok, copy_failed, copy_renamed,
  FAILlist, RENlist,
  left, temp_FAILlist,  \* of CopyFailedGeneric: the iterator, the new list
  logged,   \* what the log says of each file, and its destination there
  disk,     \* the destination: what each path holds ...
  made      \* ... and its directories, by the source directory they are for

lists    == <<FAILlist, RENlist>>
counters == <<copy_ok, copy_failed, copy_renamed>>
retry    == <<left, temp_FAILlist>>
vars == <<phase, job, stack, counters, lists, retry, logged, disk, made>>

Paths    == Seq(Names)
Contents == [of : Files, whole : BOOLEAN]
Verdicts == {"none", "copied", "failed"}
None     == [what |-> "none", path |-> <<>>]

(* A std::map from source to destination.                                  *)
IsList(l) == DOMAIN l \subseteq Files /\ \A f \in DOMAIN l : l[f] \in Paths
Empty     == [f \in {} |-> <<>>]
Put(l, k, v) == [x \in DOMAIN l \cup {k} |-> IF x = k THEN v ELSE l[x]]

TypeOK ==
  /\ phase \in {"idle", "copying", "done", "retrying"}
  /\ job \in [from : Sources, to : Targets]
  /\ stack \in Seq([dir : Dirs, path : Paths, rest : SUBSET Items])
  /\ copy_ok \in Nat /\ copy_failed \in Nat /\ copy_renamed \in Nat
  /\ IsList(FAILlist) /\ IsList(temp_FAILlist)
  /\ RENlist \subseteq Items
  /\ left \subseteq Files /\ (phase = "retrying" => left \subseteq DOMAIN FAILlist)
  /\ logged \in [Files -> [what : Verdicts, path : Paths]]
  /\ DOMAIN disk \subseteq Paths /\ \A p \in DOMAIN disk : disk[p] \in Contents
  /\ DOMAIN made \subseteq Dirs /\ \A d \in DOMAIN made : made[d] \in Paths

-----------------------------------------------------------------------------
(* How a file may turn out.                                                *)

(* CopyGeneric serves every copy that involves a share.                    *)
Generic == job.from = "net" \/ job.to = "net"

(* The directory walks of games and of CopyGeneric keep excludeList and    *)
(* FAILlist; those of DVDs and CDs do neither.                             *)
KeepsLists == job.from = "game" \/ Generic

(* Reading.  "failed": a read error outlasts the retries, or a DVD file    *)
(* ends early.  "refused": the file cannot be opened; D2XfileUDF never     *)
(* notices that, and its reads fail instead.  "short": on a CD a read      *)
(* error looks like the end of the file.  "empty": CopyFileGeneric takes a *)
(* file it cannot open for an empty one when its size, which nothing sets  *)
(* where Win32 cannot find the file, happens to be 0.                      *)
Reads == {"ok"} \cup
  (CASE job.from = "game" -> {"failed"}
     [] job.from = "dvd"  -> {"failed", "refused"}
     [] job.from = "iso"  -> {"short", "refused"}
     [] OTHER  -> {"failed", "refused"})
  \cup (IF Generic /\ job.from \in {"iso", "net"} THEN {"empty"} ELSE {})

(* Writing.  The result of FileWrite is not looked at ("lost"), and        *)
(* D2XfileUDF does not notice either that it cannot create the file.  What *)
(* CopyFileGeneric writes beyond the end of a CD's file is in IsoFile.     *)
Writes == {"ok"} \cup (IF WritesFail THEN {"lost"} ELSE {})
                 \cup (IF job.to = "net" THEN {"refused"} ELSE {})

Succeeds(r, w) == r \in {"ok", "short", "empty"} /\ w # "refused"

Store(f, path, r, w) ==
  disk' = IF "refused" \in {r, w} THEN disk
          ELSE Put(disk, path, [of |-> f, whole |-> r = "ok" /\ w = "ok"])

-----------------------------------------------------------------------------
(* Names.                                                                  *)

Present == DOMAIN disk \cup {made[d] : d \in DOMAIN made}
Taken(dir, n) == Append(dir, n) \in Present
IsEmptyDir(dir) == \A n \in Names : ~Taken(dir, n)

(* Mutant: it does not look at the directory.                              *)
ValidNames_Blind(dir, n) == {Tries[n][1]}

(* getvalidFilename: the first name the directory does not hold yet, the   *)
(* last one when it holds them all.  In an empty directory it compares     *)
(* with an uninitialised name, which may happen to be the first it tries.  *)
ValidNames(dir, n) ==
  LET tries == Tries[n]
      free  == {i \in DOMAIN tries : ~Taken(dir, tries[i])}
  IN  IF IsEmptyDir(dir) THEN {tries[i] : i \in DOMAIN tries \cap {1, 2}}
      ELSE IF free = {} THEN {tries[Len(tries)]}
      ELSE {tries[i] : i \in {j \in free : \A k \in free : j <= k}}

Renames(x) == job.to = "hdd" /\ Fatx[NameOf[x]] # NameOf[x]

(* Where an entry of the directory dir goes.                               *)
DestPaths(x, dir) ==
  {Append(dir, n) : n \in IF Renames(x) THEN ValidNames(dir, NameOf[x]) ELSE {NameOf[x]}}

Rename(x) ==
  /\ RENlist' = IF Renames(x) THEN RENlist \cup {x} ELSE RENlist
  /\ copy_renamed' = IF Renames(x) THEN copy_renamed + 1 ELSE copy_renamed

-----------------------------------------------------------------------------
(* The first pass.                                                         *)

Children(d) == {x \in Items \ {Root} : Parent[x] = d}

(* A directory is created and listed.  When the share refuses to create it *)
(* or it cannot be listed, the function returns 0 and the caller goes on   *)
(* with the next entry.                                                    *)
OpenDir(d, path, below) ==
  \/ /\ stack' = Append(below, [dir |-> d, path |-> path, rest |-> Children(d)])
     /\ made' = Put(made, d, path)
  \/ /\ ListingFails
     /\ stack' = below
     /\ made' \in {Put(made, d, path)} \cup (IF job.to = "net" THEN {made} ELSE {})

(* Mutant: it does not clear FAILlist.                                     *)
Reset_KeepsFailed ==
  /\ phase \in {"idle", "done"}
  /\ job' \in Jobs
  /\ phase' = "copying"
  /\ copy_ok' = 0 /\ copy_failed' = 0 /\ copy_renamed' = 0
  /\ RENlist' = {}
  /\ logged' = [f \in Files |-> None]
  /\ UNCHANGED <<FAILlist, retry>>

(* FileCopy() clears what the last copy left.                              *)
Reset ==
  /\ phase \in {"idle", "done"}
  /\ job' \in Jobs
  /\ phase' = "copying"
  /\ copy_ok' = 0 /\ copy_failed' = 0 /\ copy_renamed' = 0
  /\ FAILlist' = Empty /\ RENlist' = {}
  /\ logged' = [f \in Files |-> None]
  /\ UNCHANGED retry

(* A disc or directory, to a destination of its own.                       *)
CopyTree ==
  /\ Reset
  /\ disk' = Empty
  /\ made' = Put(Empty, Root, <<>>)
  /\ \/ stack' = <<[dir |-> Root, path |-> <<>>, rest |-> Children(Root)]>>
     \/ ListingFails /\ stack' = <<>>

(* A single file, from the file manager: neither counted, logged nor       *)
(* listed if it fails, and never renamed to a valid name.                  *)
CopySingle(f) ==
  /\ Reset
  /\ stack' = <<>>
  /\ made' = Empty
  /\ \E whole \in BOOLEAN : disk' = Put(Empty, <<Fatx[NameOf[f]]>>, [of |-> f, whole |-> whole])

Top == stack[Len(stack)]

(* The next entry of the directory on top.                                 *)
Entry(x) == phase = "copying" /\ stack # <<>> /\ x \in Top.rest
Without(x) == [stack EXCEPT ![Len(stack)].rest = @ \ {x}]

IsExcluded(x) == KeepsLists /\ x \in Excluded

ExcludeItem(x) ==
  /\ Entry(x)
  /\ IsExcluded(x)
  /\ Rename(x)
  /\ stack' = Without(x)
  /\ UNCHANGED <<phase, job, copy_ok, copy_failed, FAILlist, retry, logged, disk, made>>

EnterDir(x) ==
  /\ Entry(x) /\ x \in Dirs
  /\ ~IsExcluded(x)
  /\ Rename(x)
  /\ \E path \in DestPaths(x, Top.path) : OpenDir(x, path, Without(x))
  /\ UNCHANGED <<phase, job, copy_ok, copy_failed, FAILlist, retry, logged, disk>>

(* Mutant: the list gets the name before getvalidFilename.                 *)
ListFailure_FirstName(x, path) == Put(FAILlist, x, Append(Top.path, Fatx[NameOf[x]]))

(* FAILlist.insert.                                                        *)
ListFailure(x, path) == Put(FAILlist, x, path)

CopyItem(x) ==
  /\ Entry(x) /\ x \in Files
  /\ ~IsExcluded(x)
  /\ Rename(x)
  /\ stack' = Without(x)
  /\ \E path \in DestPaths(x, Top.path), r \in Reads, w \in Writes :
       /\ Store(x, path, r, w)
       /\ \/ /\ Succeeds(r, w)
             /\ copy_ok' = copy_ok + 1
             /\ logged' = [logged EXCEPT ![x] = [what |-> "copied", path |-> path]]
             /\ UNCHANGED <<copy_failed, FAILlist>>
          \/ /\ ~Succeeds(r, w)
             /\ copy_failed' = copy_failed + 1
             /\ logged' = [logged EXCEPT ![x] = [what |-> "failed", path |-> path]]
             /\ FAILlist' = IF KeepsLists THEN ListFailure(x, path) ELSE FAILlist
             /\ UNCHANGED copy_ok
  /\ UNCHANGED <<phase, job, retry, made>>

(* Mutant: the recursion never leaves the first directory.                 *)
LeaveDir_NeverRoot ==
  /\ phase = "copying" /\ Len(stack) > 1
  /\ Top.rest = {}
  /\ stack' = SubSeq(stack, 1, Len(stack) - 1)
  /\ UNCHANGED <<phase, job, counters, lists, retry, logged, disk, made>>

LeaveDir ==
  /\ phase = "copying" /\ stack # <<>>
  /\ Top.rest = {}
  /\ stack' = SubSeq(stack, 1, Len(stack) - 1)
  /\ UNCHANGED <<phase, job, counters, lists, retry, logged, disk, made>>

(* Process() has returned and OnExit() has run.                            *)
Finish ==
  /\ phase = "copying" /\ stack = <<>>
  /\ phase' = "done"
  /\ UNCHANGED <<job, stack, counters, lists, retry, logged, disk, made>>

-----------------------------------------------------------------------------
(* The retry, which the wizard offers after a copy of a disc in which      *)
(* something failed.                                                       *)

(* Mutant: the whole disc again.                                           *)
CopyFailed_WholeDisc ==
  /\ phase = "done" /\ copy_failed > 0
  /\ job.from # "net"
  /\ phase' = "retrying"
  /\ left' = Files
  /\ temp_FAILlist' = Empty
  /\ UNCHANGED <<job, stack, counters, lists, logged, disk, made>>

CopyFailed ==
  /\ phase = "done" /\ copy_failed > 0
  /\ job.from # "net"
  /\ phase' = "retrying"
  /\ left' = DOMAIN FAILlist
  /\ temp_FAILlist' = Empty
  /\ UNCHANGED <<job, stack, counters, lists, logged, disk, made>>

(* CopyFileGeneric from the disc to a D2XfileUDF, whatever the target was: *)
(* it cannot create a file on a share, and does not notice.                *)
RetryItem(f) ==
  /\ phase = "retrying" /\ f \in left
  /\ left' = left \ {f}
  /\ \E r \in Reads, w \in Writes \ {"refused"} :
       /\ IF job.to = "net" THEN UNCHANGED disk ELSE Store(f, FAILlist[f], r, w)
       /\ \/ /\ Succeeds(r, w)
             /\ copy_ok' = copy_ok + 1
             /\ logged' = [logged EXCEPT ![f].what = "copied"]
             /\ UNCHANGED temp_FAILlist
          \/ /\ ~Succeeds(r, w)
             /\ temp_FAILlist' = Put(temp_FAILlist, f, FAILlist[f])
             /\ UNCHANGED <<copy_ok, logged>>
  /\ UNCHANGED <<phase, job, stack, copy_failed, copy_renamed, lists, made>>

(* Mutant: copy_failed stays what the first pass made it.                  *)
FinishRetry_NoCount ==
  /\ phase = "retrying" /\ left = {}
  /\ FAILlist' = temp_FAILlist
  /\ phase' = "done"
  /\ UNCHANGED <<job, stack, counters, RENlist, retry, logged, disk, made>>

FinishRetry ==
  /\ phase = "retrying" /\ left = {}
  /\ FAILlist' = temp_FAILlist
  /\ copy_failed' = Cardinality(DOMAIN temp_FAILlist)
  /\ phase' = "done"
  /\ UNCHANGED <<job, stack, copy_ok, copy_renamed, RENlist, retry, logged, disk, made>>

-----------------------------------------------------------------------------
Init ==
  /\ phase = "idle"
  /\ job \in Jobs
  /\ stack = <<>>
  /\ copy_ok = 0 /\ copy_failed = 0 /\ copy_renamed = 0
  /\ FAILlist = Empty /\ RENlist = {}
  /\ left = {} /\ temp_FAILlist = Empty
  /\ logged = [f \in Files |-> None]
  /\ disk = Empty
  /\ made = Empty

ThreadStep ==
  \/ \E x \in Items : ExcludeItem(x) \/ EnterDir(x) \/ CopyItem(x)
  \/ LeaveDir \/ Finish
  \/ \E f \in Files : RetryItem(f)
  \/ FinishRetry

Next == CopyTree \/ (\E f \in Files : CopySingle(f)) \/ CopyFailed \/ ThreadStep

(* The thread runs until Process() returns; copies and retries are the     *)
(* user's choice.                                                          *)
Spec == Init /\ [][Next]_vars /\ WF_vars(ThreadStep)

-----------------------------------------------------------------------------
(* Properties.                                                             *)

Logged(v) == {f \in Files : logged[f].what = v}

(* The report (files copied, failed, renamed) says what the log says, as   *)
(* long as a pass that keeps FAILlist is the one that failed.              *)
ReportMatchesLog ==
  /\ copy_ok = Cardinality(Logged("copied"))
  /\ KeepsLists /\ phase # "retrying" => copy_failed = Cardinality(Logged("failed"))
  /\ copy_renamed = Cardinality(RENlist)

(* The same for every kind of disc.                                        *)
ReportMatchesLogAlways ==
  phase = "done" => copy_failed = Cardinality(Logged("failed"))

(* A file reported as copied is at its destination, whole: nothing wrote   *)
(* over it, no read or write error went unnoticed.                         *)
IsThere(f) ==
  /\ logged[f].path \in DOMAIN disk
  /\ disk[logged[f].path] = [of |-> f, whole |-> TRUE]
CopiedIsThere == \A f \in Logged("copied") : IsThere(f)

(* ... for a game copied to hard disk.                                     *)
GameIsThere == job = [from |-> "game", to |-> "hdd"] => CopiedIsThere

(* A retry touches no file that was copied.                                *)
RetryKeepsCopies ==
  [][phase = "retrying" =>
       \A f \in Logged("copied") : IsThere(f) => IsThere(f)' /\ logged'[f] = logged[f]]_vars

(* Every pass comes to an end: the recursion and the retry terminate.      *)
PassEnds == (phase \in {"copying", "retrying"}) ~> (phase = "done")

Ledger == INSTANCE BackupLedger WITH
  status <- [f \in Files |-> IF logged[f].what = "none" THEN "pending" ELSE logged[f].what]
ImplementsLedger == Ledger!Spec
====
