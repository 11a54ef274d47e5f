--------------------------- MODULE WorkspaceRestore ---------------------------
(***************************************************************************)
(* The snapshot of a workspace, the change set of a turn, and what undoes  *)
(* it (changeset.go): Restore for a rollback, ApplySelectiveDecision for   *)
(* the files the user discards.  ChangeSetReview decides when these run;   *)
(* here a turn may do anything to the files and to git: change .gitignore  *)
(* and the index, make the repository or remove it.  The code asks git     *)
(* which files there are each time it looks at the workspace.              *)
(*                                                                         *)
(* A workspace is a function from paths to a text (a sequence of lines),   *)
(* Binary, Dir or Absent.  A line of .gitignore that is a path hides it.   *)
(***************************************************************************)
EXTENDS TextDiff

CONSTANTS
  Order,       \* the paths, as WalkDir visits them
  Above,       \* the directories above each path, up to the root
  Gitignore, Dir, Absent, Binary,
  Versions,    \* what may be at each path
  Repos,       \* the workspaces' circumstances
  Staged,      \* bound: the paths a turn puts into git's index or takes out of it
  MaxTouched   \* bound on the paths a turn changes, in the workspace and in the index

Paths == Range(Order)

\* A path is not above itself, and what is above a directory is above what is in it.  Contents
\* are told apart; a text is a sequence.
ASSUME WorkspaceAssumption ==
  /\ Order \in Seq(Paths)
  /\ Above \in [Paths -> SUBSET Paths]
  /\ \A p \in Paths : p \notin Above[p] /\ \A q \in Above[p] : Above[q] \subseteq Above[p]
  /\ Dir # Absent /\ Binary \notin {Dir, Absent}
  /\ \A p \in Paths : /\ Absent \notin Versions[p]
                      /\ \A t \in Versions[p] \ {Dir, Binary} : t \in Seq(Range(t))
  /\ Staged \subseteq Paths /\ \A r \in Repos : r.git \in BOOLEAN /\ r.tracked \subseteq Paths

VARIABLES
  repo,        \* as the turn found it.  git: is it a repository?  tracked: what is in its index.
               \* quoted: the names git prints in quotes.  artifacts: names of generated files.
               \* stuck: what cannot be removed
  git,         \* is it a repository now?
  tracked,     \* what is in its index now
  before,      \* the workspace as the turn found it
  snapshot,
  left,        \* the workspace as the turn left it
  workspace,
  changeSet,   \* the reviewed files in order
  broken,      \* the file a failed copy was writing
  phase

vars == <<repo, git, tracked, before, snapshot, left, workspace, changeSet, broken, phase>>

IsFile(w, p) == w[p] \notin {Absent, Dir}

\* Nothing is below what is no directory.
Workspaces ==
  LET Contents == {f \in [Paths -> (UNION {Versions[p] : p \in Paths}) \cup {Absent}] :
                    \A p \in Paths : f[p] \in Versions[p] \cup {Absent}}
  IN {[p \in Paths |-> IF \A q \in Above[p] : f[q] = Dir THEN f[p] ELSE Absent] : f \in Contents}

Ignored(w) == IF w[Gitignore] \in {Absent, Binary} THEN {} ELSE Range(w[Gitignore]) \cap Paths

\* git ls-files --cached --others --exclude-standard; without git, all files.
ListedBy(isRepository, index, w) ==
  {p \in Paths : /\ IsFile(w, p)
                 /\ isRepository => /\ p \notin repo.quoted \cup repo.artifacts
                                    /\ p \in index \/ p \notin Ignored(w)}

Listed(w) == ListedBy(git, tracked, w)

Files(s) == {p \in Paths : IsFile(s, p)}

Init ==
  /\ repo \in Repos /\ before \in Workspaces
  /\ git = repo.git /\ tracked = repo.tracked
  /\ workspace = before /\ left = before
  /\ snapshot = [p \in Paths |-> Absent]
  /\ changeSet = <<>> /\ broken = {} /\ phase = "idle"

-----------------------------------------------------------------------------

\* The listed files with their directories; without git, all directories.
CreateSnapshot ==
  /\ phase = "idle" /\ phase' = "running"
  /\ snapshot' = [p \in Paths |->
       IF p \in Listed(workspace) \/ (workspace[p] = Dir /\ (git => \E c \in Listed(workspace) : p \in Above[c]))
       THEN workspace[p] ELSE Absent]
  /\ UNCHANGED <<repo, git, tracked, before, left, workspace, changeSet, broken>>

\* The paths that are not the same in two workspaces with their indices.
Touched(w, index, v, other) ==
  {p \in Paths : w[p] # v[p]} \cup {p \in Paths : ~(p \in index <=> p \in other)}

\* The CLI works in the workspace, and with git.
Turn ==
  /\ phase = "running" /\ phase' = "ended"
  /\ git' \in BOOLEAN /\ tracked' \in {(tracked \ Staged) \cup index : index \in SUBSET Staged}
  /\ ~git' => tracked' = tracked
  /\ workspace' \in {w \in Workspaces : Cardinality(Touched(workspace, tracked, w, tracked')) <= MaxTouched}
  /\ left' = workspace'
  /\ UNCHANGED <<repo, before, snapshot, changeSet, broken>>

-----------------------------------------------------------------------------
(* The change set.                                                         *)

Status(p) ==
  IF p \notin Files(snapshot) THEN "added" ELSE IF p \notin Listed(workspace) THEN "deleted" ELSE "modified"

Changed == {p \in Files(snapshot) \cup Listed(workspace) :
              Status(p) = "modified" => snapshot[p] # workspace[p]}

\* readFileForDiff fails on a directory, and below a file; a file that is not there is empty.
BelowFile(w, p) == \E q \in Above[p] : IsFile(w, q)
Unreadable(w, p) == w[p] = Dir \/ BelowFile(w, p)
Text(w, p) == IF IsFile(w, p) THEN w[p] ELSE <<>>

\* The diffs of all the texts there are, computed once.
Texts == {<<>>} \cup ((UNION {Versions[p] : p \in Paths}) \ {Dir, Binary})
TextDiffs == [old \in Texts |-> [new \in Texts |-> BuildUnifiedTextDiff(old, new)]]

BinaryDiff(p) == Binary \in {snapshot[p], workspace[p]}

BuildFileDiff(p) ==
  IF BinaryDiff(p) THEN Binary ELSE TextDiffs[Text(snapshot, p)][Text(workspace, p)]

\* What FilterFiles keeps, and in the order of the paths.
Reviewed == {p \in Changed \ repo.artifacts : ~BinaryDiff(p)}

FilterWalk(kept) ==
  LET R[i \in 0..Len(Order)] ==
        IF i = 0 THEN <<>> ELSE IF Order[i] \in kept THEN Append(R[i - 1], Order[i]) ELSE R[i - 1]
  IN R

ReviewedFiles == FilterWalk(Reviewed)[Len(Order)]

Entry(p) == [path |-> p, status |-> Status(p), diff |-> BuildFileDiff(p)]

BuildChangeSet ==
  /\ phase = "ended"
  /\ \A p \in Changed : ~Unreadable(snapshot, p) /\ ~Unreadable(workspace, p)
  /\ LET files == ReviewedFiles
     IN /\ changeSet' = [i \in DOMAIN files |-> Entry(files[i])]
        /\ phase' = IF files = <<>> THEN "unreviewed" ELSE "reviewed"
  /\ UNCHANGED <<repo, git, tracked, before, snapshot, left, workspace, broken>>

\* One diff that fails is enough: there is no change set, and the snapshot goes.
BuildFails ==
  /\ phase = "ended"
  /\ \E p \in Changed : Unreadable(snapshot, p) \/ Unreadable(workspace, p)
  /\ phase' = "unreviewed"
  /\ UNCHANGED <<repo, git, tracked, before, snapshot, left, workspace, changeSet, broken>>

-----------------------------------------------------------------------------
(* Undoing it.                                                             *)

Result(w, ok) == [files |-> w, ok |-> ok]

\* copyFile makes the directories, and fails where they or the file cannot be made.
copyFile(r, p) ==
  IF Unreadable(r.files, p) THEN Result(r.files, FALSE)
  ELSE Result([q \in Paths |-> IF q = p THEN snapshot[p] ELSE IF q \in Above[p] THEN Dir ELSE r.files[q]], TRUE)

MkdirAll(r, p) ==
  IF IsFile(r.files, p) \/ BelowFile(r.files, p) THEN Result(r.files, FALSE)
  ELSE Result([q \in Paths |-> IF q \in {p} \cup Above[p] THEN Dir ELSE r.files[q]], TRUE)

\* The walk ends at the first error.
CopyNext(p, r) ==
  IF ~r.ok \/ snapshot[p] = Absent THEN r
  ELSE IF snapshot[p] = Dir THEN MkdirAll(r, p) ELSE copyFile(r, p)

CopyWalk(w) ==
  LET C[i \in 0..Len(Order)] == IF i = 0 THEN Result(w, TRUE) ELSE CopyNext(Order[i], C[i - 1])
  IN C

CopyAll(w) == CopyWalk(w)[Len(Order)]

\* Mutant: whatever is not in the snapshot goes.
RestoreAll(w) == CopyAll([p \in Paths |-> IF IsFile(w, p) /\ p \notin Files(snapshot) THEN Absent ELSE w[p]])

\* Mutant: what the turn added stays.
RestoreCopies(w) == CopyAll(w)

\* Errors of os.Remove are ignored.
RemoveAdded(w) ==
  [p \in Paths |-> IF p \in Listed(w) \ (Files(snapshot) \cup repo.stuck) THEN Absent ELSE w[p]]

Restore(w) == CopyAll(RemoveAdded(w))

\* Mutant: a file that was changed by the turn is restored, one that was deleted is not.
DiscardModified(r, file) ==
  IF file.status = "added"
  THEN IF file.path \in repo.stuck THEN Result(r.files, FALSE)
       ELSE Result([r.files EXCEPT ![file.path] = Absent], TRUE)
  ELSE IF file.status = "deleted" THEN r ELSE copyFile(r, file.path)

ApplyDiscardForFile(r, file) ==
  IF file.status = "added"
  THEN IF file.path \in repo.stuck THEN Result(r.files, FALSE)
       ELSE Result([r.files EXCEPT ![file.path] = Absent], TRUE)
  ELSE copyFile(r, file.path)

FileOf(p) == CHOOSE f \in Range(changeSet) : f.path = p

\* The first error ends it.
DiscardWalk(w, discarded) ==
  LET D[i \in 0..Len(discarded)] ==
        IF i = 0 THEN Result(w, TRUE)
        ELSE IF ~D[i - 1].ok THEN D[i - 1] ELSE ApplyDiscardForFile(D[i - 1], FileOf(discarded[i]))
  IN D

ApplySelectiveDecision(w, discarded) == DiscardWalk(w, discarded)[Len(discarded)]

Rollback ==
  /\ phase = "reviewed"
  /\ workspace' = Restore(workspace).files
  /\ phase' = IF Restore(workspace).ok THEN "rolled_back" ELSE "failed"
  /\ UNCHANGED <<repo, git, tracked, before, snapshot, left, changeSet, broken>>

\* A copy of p after r fails: the file cannot be opened, or it has been emptied and cannot be
\* written.  What it holds then of what it should is taken for nothing.
CopyBreaks(r, p) ==
  /\ r.ok /\ p \in Files(snapshot) /\ ~Unreadable(r.files, p)
  /\ \/ workspace' = [copyFile(r, p).files EXCEPT ![p] = r.files[p]] /\ broken' = {}
     \/ workspace' = [copyFile(r, p).files EXCEPT ![p] = <<>>] /\ broken' = {p}
  /\ phase' = "failed"
  /\ UNCHANGED <<repo, git, tracked, before, snapshot, left, changeSet>>

\* The rollback gets as far as one of the files that it writes, changed by the turn or not.
RollbackBreaks ==
  /\ phase = "reviewed"
  /\ \E i \in DOMAIN Order : CopyBreaks(CopyWalk(RemoveAdded(workspace))[i - 1], Order[i])

\* The user discards some of the files, in any order.
Discards == SetToAllKPermutations({f.path : f \in Range(changeSet)}) \ {<<>>}

Selective ==
  /\ phase = "reviewed"
  /\ \E discarded \in Discards :
       /\ workspace' = ApplySelectiveDecision(workspace, discarded).files
       /\ phase' = IF ApplySelectiveDecision(workspace, discarded).ok THEN "selective_applied" ELSE "failed"
  /\ UNCHANGED <<repo, git, tracked, before, snapshot, left, changeSet, broken>>

SelectiveBreaks ==
  /\ phase = "reviewed"
  /\ \E discarded \in Discards : \E i \in DOMAIN discarded :
       /\ FileOf(discarded[i]).status # "added"
       /\ CopyBreaks(DiscardWalk(workspace, discarded)[i - 1], discarded[i])

Next ==
  \/ CreateSnapshot \/ Turn \/ BuildChangeSet \/ BuildFails
  \/ Rollback \/ RollbackBreaks \/ Selective \/ SelectiveBreaks

Spec == Init /\ [][Next]_vars

-----------------------------------------------------------------------------
(* The inductive invariant.                                                *)

Contents == {Absent, Dir, <<>>} \cup UNION {Versions[p] : p \in Paths}

TypeOK ==
  /\ repo \in Repos /\ git \in BOOLEAN /\ tracked \subseteq Paths /\ broken \subseteq Paths
  /\ before \in Workspaces /\ left \in Workspaces
  /\ snapshot \in [Paths -> Contents] /\ workspace \in [Paths -> Contents]
  /\ phase \in {"idle", "running", "ended", "reviewed", "unreviewed", "rolled_back",
                "selective_applied", "failed"}

\* What the snapshot has is below directories that it has.
Grounded == \A p \in Paths : snapshot[p] # Absent => \A q \in Above[p] : snapshot[q] = Dir

\* The snapshot has the files that were listed, as they were, and the directories they are in.
SnapshotInv ==
  phase # "idle" =>
    /\ Files(snapshot) = ListedBy(repo.git, repo.tracked, before)
    /\ \A p \in Paths : snapshot[p] \in {Absent, before[p]}
    /\ Grounded

\* Nobody but the turn has touched the workspace until it is undone.
TurnInv ==
  /\ phase \in {"idle", "running"} => left = before /\ git = repo.git /\ tracked = repo.tracked
  /\ phase \in {"idle", "running", "ended", "reviewed", "unreviewed"} => workspace = left

\* The change set has one entry for each reviewed file, and says of it what the turn did.
ChangeSetInv ==
  phase = "reviewed" =>
    /\ changeSet \in Seq(Range(changeSet))
    /\ {f.path : f \in Range(changeSet)} = Reviewed
    /\ \A f \in Range(changeSet) : f = Entry(f.path)

-----------------------------------------------------------------------------
(* Properties.                                                             *)

\* After a rollback that reported no error every file of the snapshot is as it was, and the turn's
\* other files are gone, save those that cannot be removed, those that the turn hid from git, and
\* those git does not list at all: generated files and names git prints in quotes.
RollbackRestores ==
  phase = "rolled_back" =>
    /\ \A p \in Files(snapshot) : workspace[p] = snapshot[p]
    /\ \A p \in Listed(workspace) \ Files(snapshot) : p \in repo.stuck \cup Ignored(left)

\* What the turn did not touch, neither the file nor its entry in the index, stays through every
\* decision, also through one that fails midway, with three exceptions: a file that was hidden from
\* the snapshot and that the turn took out of .gitignore, any such file if the turn removed the
\* repository, and the one file that a failed rollback had emptied when its copy failed.
UntouchedIsKept ==
  \A p \in Paths :
    /\ IsFile(before, p) /\ p \notin Touched(before, repo.tracked, left, tracked)
    /\ workspace[p] # before[p]
    => \/ p \in Ignored(before) \ Ignored(left)
       \/ p \notin Files(snapshot) /\ repo.git /\ ~git
       \/ broken = {p}

IInv == TypeOK /\ SnapshotInv /\ TurnInv /\ ChangeSetInv /\ RollbackRestores /\ UntouchedIsKept

\* To discard all the files that were reviewed is to roll back, except for what the review leaves
\* out: binary files and generated ones.
DiscardAllIsRollback ==
  phase = "reviewed" =>
    LET all == ApplySelectiveDecision(workspace, [i \in DOMAIN changeSet |-> changeSet[i].path])
        back == Restore(workspace)
    IN all.ok /\ back.ok =>
         \A p \in Paths \ repo.artifacts :
           \/ Binary \in {snapshot[p], workspace[p]}
           \/ Text(all.files, p) = Text(back.files, p) /\ (IsFile(all.files, p) <=> IsFile(back.files, p))

CommonLengths == [old \in Texts |-> [new \in Texts |-> CommonLength(old, new)]]

\* The diff of a file says, in the right places and with no more changes than needed, how the
\* user gets from the old text to the new one.
DiffIsExact ==
  phase = "reviewed" => \A f \in Range(changeSet) :
    LET old == Text(snapshot, f.path)
        new == Text(left, f.path)
    IN /\ Patch(old, f.diff) = new
       /\ \A h \in Range(f.diff) : Fits(h, old, new)
       /\ ChangeCount(f.diff) = Len(old) + Len(new) - 2 * CommonLengths[old][new]

\* "You review and approve changes through the web interface": a turn that changed a text file git
\* lists is reviewed.
ChangesAreReviewed ==
  phase = "unreviewed" => \A p \in Changed \ repo.artifacts : Binary \in {snapshot[p], left[p]}
===============================================================================
