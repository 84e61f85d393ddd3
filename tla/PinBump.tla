------------------------------- MODULE PinBump -------------------------------
(***************************************************************************)
(* scripts/bump_panopticon_pin.py: a release, or somebody by hand, has it  *)
(* pin an image in the two compose files of another repository, by one     *)
(* pull request for each tag.                                              *)
(*                                                                         *)
(* Every call of the GitHub API is a step; developers edit, merge and      *)
(* close between them, tags move, and a run may fail anywhere.  The        *)
(* workflow lets one run for a tag go on at a time.  Commits are known by  *)
(* their number here, by their hash there; a commit is one with any other  *)
(* of the same parent and files.                                           *)
(***************************************************************************)
EXTENDS Integers, Sequences, FiniteSets

CONSTANTS
  Tags,         \* release tags
  Digests,      \* image digests
  Published,    \* those that a tag can name
  Starts,       \* what the two compose files may hold at first
  MaxCommits,   \* commits at which developers stop
  MaxPulls      \* pull requests at which developers stop

NoPin == "no pin"
NoTag == "no tag"
ByHand == "by hand"

\* A compose file: its pin, the version its comment names, and all the rest,
\* told apart by the number of its revision.
Content == [pin : Digests \cup {NoPin}, note : Tags \cup {NoTag}, text : Nat]

Files == [1..2 -> Content]

ASSUME PinAssumption ==
  /\ NoPin \notin Digests /\ ByHand \notin Digests /\ NoTag \notin Tags
  /\ Published \subseteq Digests /\ Published # {}
  /\ Starts \subseteq Files
  /\ MaxCommits \in Nat /\ MaxPulls \in Nat

VARIABLES
  commits,    \* the commits of panopticon
  head,       \* the head of its default branch
  branch,     \* the head of the branch of each tag; 0 where there is none
  pulls,      \* its pull requests
  registry,   \* the digest each tag names
  run,        \* the run for each tag
  calm        \* from now on nobody but the runs does anything, and none fails

vars == <<commits, head, branch, pulls, registry, run, calm>>

remote == <<commits, head, branch, pulls>>

\* Where a run is; what it pins; what it has read; the pull request it found
\* or handled.
Steps == {"idle", "files", "head", "branch", "find", "look", "write", "pull", "done"}

Idle == [step |-> "idle", digest |-> NoPin, got |-> <<>>, base |-> 0,
         ready |-> FALSE, exists |-> FALSE, pull |-> 0]

-----------------------------------------------------------------------------
(* The repository.                                                         *)

CommitId(c) ==
  IF \E i \in DOMAIN commits : commits[i] = c
  THEN CHOOSE i \in DOMAIN commits : commits[i] = c
  ELSE Len(commits) + 1

Record(c) ==
  commits' = IF CommitId(c) > Len(commits) THEN Append(commits, c) ELSE commits

OpenPulls(t) == {n \in DOMAIN pulls : pulls[n].tag = t /\ pulls[n].state = "open"}

PullOf(t, body) == [tag |-> t, body |-> body, state |-> "open"]

-----------------------------------------------------------------------------
(* The script.                                                             *)

DigestCurrent(file, digest) == file.pin = digest

\* Slip: the tag pinned, which can move.
Rewrite_Tag(file, digest, t) ==
  [file EXCEPT !.pin = t, !.note = IF @ = NoTag THEN NoTag ELSE t]

\* A comment that names a version names this one.
Rewrite(file, digest, t) ==
  [file EXCEPT !.pin = digest, !.note = IF @ = NoTag THEN NoTag ELSE t]

Desired(t) ==
  [i \in 1..2 |-> Rewrite(run[t].got[i], run[t].digest, t)]

\* The files of the commit: those to change over those of its parent.
Tree(t) ==
  [i \in 1..2 |-> IF Desired(t)[i] # run[t].got[i] THEN Desired(t)[i]
                  ELSE commits[run[t].base].files[i]]

Moves(t, step) == run' = [run EXCEPT ![t].step = step]

Fails(t) == run' = [run EXCEPT ![t] = Idle]

\* The digest is resolved, and the run begins.
Begin(t) ==
  /\ run[t].step \in {"idle", "done"}
  /\ run' = [run EXCEPT ![t] = [Idle EXCEPT !.step = "files", !.digest = registry[t]]]
  /\ UNCHANGED <<remote, registry, calm>>

\* One compose file, as the default branch has it now.  After the second the
\* run ends when both are current, and fails when one has no pin at all.
ReadFile(t) ==
  /\ run[t].step = "files"
  /\ LET got == Append(run[t].got, commits[head].files[Len(run[t].got) + 1])
         current == \A i \in DOMAIN got : DigestCurrent(got[i], run[t].digest)
         pinned == \A i \in DOMAIN got : got[i].pin # NoPin
     IN \/ /\ Len(got) < 2
           /\ run' = [run EXCEPT ![t].got = got]
        \/ /\ Len(got) = 2 /\ current
           /\ run' = [run EXCEPT ![t].got = got, ![t].step = "done"]
        \/ /\ Len(got) = 2 /\ ~current /\ ~pinned
           /\ Fails(t)
        \/ /\ Len(got) = 2 /\ ~current /\ pinned
           /\ run' = [run EXCEPT ![t].got = got, ![t].step = "head"]
  /\ UNCHANGED <<remote, registry, calm>>

ReadHead(t) ==
  /\ run[t].step = "head"
  /\ run' = [run EXCEPT ![t].base = head, ![t].step = "branch"]
  /\ UNCHANGED <<remote, registry, calm>>

\* The branch is what this run would make it.
Ready(t) ==
  /\ branch[t] # 0
  /\ commits[branch[t]].parent = run[t].base
  /\ commits[branch[t]].files = Desired(t)

ReadBranch(t) ==
  /\ run[t].step = "branch"
  /\ run' = [run EXCEPT ![t].ready = Ready(t), ![t].step = "find"]
  /\ UNCHANGED <<remote, registry, calm>>

\* Slip: a branch that is ready needs no pull request.
NextStep_Ready(t) == IF run[t].ready THEN "done" ELSE "look"

NextStep(t) == IF run[t].ready THEN "pull" ELSE "look"

FindPull(t) ==
  /\ run[t].step = "find"
  /\ \/ /\ OpenPulls(t) = {}
        /\ Moves(t, NextStep(t))
     \/ \E n \in OpenPulls(t) :
          run' = [run EXCEPT ![t].pull = n, ![t].step = NextStep(t)]
  /\ UNCHANGED <<remote, registry, calm>>

\* force_branch asks whether there is a branch, then creates or moves it.
LookBranch(t) ==
  /\ run[t].step = "look"
  /\ run' = [run EXCEPT ![t].exists = (branch[t] # 0), ![t].step = "write"]
  /\ UNCHANGED <<remote, registry, calm>>

\* Slip: a commit on top of the branch.
Parent_Branch(t) == IF branch[t] = 0 THEN run[t].base ELSE branch[t]

Parent(t) == run[t].base

\* GitHub refuses to create what exists and to move what does not.
WriteBranch(t) ==
  /\ run[t].step = "write"
  /\ \/ /\ run[t].exists = (branch[t] # 0)
        /\ LET c == [parent |-> Parent(t), files |-> Tree(t)]
           IN /\ Record(c)
              /\ branch' = [branch EXCEPT ![t] = CommitId(c)]
        /\ Moves(t, "pull")
        /\ UNCHANGED <<head, pulls>>
     \/ /\ run[t].exists # (branch[t] # 0)
        /\ Fails(t)
        /\ UNCHANGED remote
  /\ UNCHANGED <<registry, calm>>

\* Where GitHub says that there is a pull request already, it is updated.
CreatePull(t) ==
  /\ run[t].step = "pull"
  /\ run[t].pull = 0
  /\ \/ /\ branch[t] = 0
        /\ Fails(t)
        /\ UNCHANGED remote
     \/ /\ branch[t] # 0 /\ OpenPulls(t) = {}
        /\ pulls' = Append(pulls, PullOf(t, run[t].digest))
        /\ run' = [run EXCEPT ![t].pull = Len(pulls) + 1, ![t].step = "done"]
        /\ UNCHANGED <<commits, head, branch>>
     \/ \E n \in OpenPulls(t) :
          /\ branch[t] # 0
          /\ pulls' = [pulls EXCEPT ![n].body = run[t].digest]
          /\ run' = [run EXCEPT ![t].pull = n, ![t].step = "done"]
          /\ UNCHANGED <<commits, head, branch>>
  /\ UNCHANGED <<registry, calm>>

\* Slip: the title alone compared, which a moved tag does not change.
BodyFor_Kept(t) == pulls[run[t].pull].body

BodyFor(t) == run[t].digest

\* The pull request found is left alone where title and body are right.
UpdatePull(t) ==
  /\ run[t].step = "pull"
  /\ run[t].pull # 0
  /\ pulls' = [pulls EXCEPT ![run[t].pull].body = BodyFor(t)]
  /\ Moves(t, "done")
  /\ UNCHANGED <<commits, head, branch, registry, calm>>

\* A call fails, or the job is stopped.  A dry run ends like this as well.
Fail(t) ==
  /\ ~calm
  /\ run[t].step \notin {"idle", "done"}
  /\ Fails(t)
  /\ UNCHANGED <<remote, registry, calm>>

RunStep(t) ==
  \/ ReadFile(t) \/ ReadHead(t) \/ ReadBranch(t) \/ FindPull(t)
  \/ LookBranch(t) \/ WriteBranch(t) \/ CreatePull(t) \/ UpdatePull(t)

-----------------------------------------------------------------------------
(* Everybody else.                                                         *)

Edit(i) ==
  /\ ~calm
  /\ Len(commits) < MaxCommits
  /\ commits' = Append(commits, [parent |-> head,
                                 files |-> [commits[head].files EXCEPT ![i].text = @ + 1]])
  /\ head' = Len(commits) + 1
  /\ UNCHANGED <<branch, pulls, registry, run, calm>>

\* A three-way merge of one field: none when both sides changed it.
Agree(mine, old, theirs) == mine = old \/ theirs = old \/ mine = theirs

Merged(mine, old, theirs) == IF mine # old THEN mine ELSE theirs

Fields == {"pin", "note", "text"}

\* The three versions of file i that a merge of the branch brings together.
Versions(t, i) ==
  <<commits[branch[t]].files[i], commits[commits[branch[t]].parent].files[i],
    commits[head].files[i]>>

Mergeable(t) ==
  \A i \in 1..2, f \in Fields :
    LET v == Versions(t, i) IN Agree(v[1][f], v[2][f], v[3][f])

MergedFiles(t) ==
  [i \in 1..2 |-> LET v == Versions(t, i)
                 IN [f \in Fields |-> Merged(v[1][f], v[2][f], v[3][f])]]

\* A pull request is merged; its branch may be deleted.
Merge(n) ==
  LET t == pulls[n].tag
  IN /\ ~calm
     /\ pulls[n].state = "open"
     /\ branch[t] # 0
     /\ Len(commits) < MaxCommits
     /\ Mergeable(t)
     /\ commits' = Append(commits, [parent |-> head, files |-> MergedFiles(t)])
     /\ head' = Len(commits) + 1
     /\ pulls' = [pulls EXCEPT ![n].state = "merged"]
     /\ \/ branch' = [branch EXCEPT ![t] = 0]
        \/ UNCHANGED branch
     /\ UNCHANGED <<registry, run, calm>>

\* It may be closed instead, with its branch or without.
Close(n) ==
  /\ ~calm
  /\ pulls[n].state = "open"
  /\ Len(pulls) <= MaxPulls
  /\ pulls' = [pulls EXCEPT ![n].state = "closed"]
  /\ \/ branch' = [branch EXCEPT ![pulls[n].tag] = 0]
     \/ UNCHANGED branch
  /\ UNCHANGED <<commits, head, registry, run, calm>>

\* Somebody opens the pull request that a failed run left out.
OpenByHand(t) ==
  /\ ~calm
  /\ branch[t] # 0
  /\ OpenPulls(t) = {}
  /\ Len(pulls) < MaxPulls
  /\ pulls' = Append(pulls, PullOf(t, ByHand))
  /\ UNCHANGED <<commits, head, branch, registry, run, calm>>

\* The tag can move.  The digest cannot.
MoveTag(t, d) ==
  /\ ~calm
  /\ registry[t] # d
  /\ registry' = [registry EXCEPT ![t] = d]
  /\ UNCHANGED <<remote, run, calm>>

CalmDown ==
  /\ ~calm
  /\ calm' = TRUE
  /\ UNCHANGED <<remote, registry, run>>

Init ==
  /\ \E files \in Starts : commits = <<[parent |-> 0, files |-> files]>>
  /\ head = 1
  /\ branch = [t \in Tags |-> 0]
  /\ pulls = <<>>
  /\ registry \in [Tags -> Published]
  /\ run = [t \in Tags |-> Idle]
  /\ calm = FALSE

Next ==
  \/ \E t \in Tags : Begin(t) \/ RunStep(t) \/ Fail(t) \/ OpenByHand(t)
  \/ \E t \in Tags, d \in Published : MoveTag(t, d)
  \/ \E i \in 1..2 : Edit(i)
  \/ \E n \in DOMAIN pulls : Merge(n) \/ Close(n)
  \/ CalmDown

\* A run goes on until it ends.  That runs are started again, and that the
\* world calms down, is not promised: RerunsRepair assumes it.
Spec == Init /\ [][Next]_vars /\ \A t \in Tags : WF_vars(RunStep(t))

-----------------------------------------------------------------------------
(* Properties.                                                             *)

PinTypeOK ==
  /\ \A i \in DOMAIN commits : commits[i] \in [parent : 0..(i - 1), files : Files]
  /\ head \in DOMAIN commits
  /\ branch \in [Tags -> 0..Len(commits)]
  /\ \A n \in DOMAIN pulls :
       pulls[n] \in [tag : Tags, body : Digests \cup {ByHand},
                     state : {"open", "merged", "closed"}]
  /\ registry \in [Tags -> Digests]
  /\ run \in [Tags -> [step : Steps, digest : Digests \cup {NoPin}, got : Seq(Content),
                       base : 0..Len(commits), ready : BOOLEAN, exists : BOOLEAN,
                       pull : 0..Len(pulls)]]
  /\ calm \in BOOLEAN

\* The files a run has read are those of the commit it builds on.
Consistent(t) == run[t].base # 0 /\ run[t].got = commits[run[t].base].files

\* Where the default branch did not move between the reads, the branch that a
\* run leaves is one commit on the base it has read, pins the digest in both
\* files, and changes nothing else.
BranchSitsOnItsBase ==
  \A t \in Tags :
    /\ run[t].step \in {"pull", "done"}
    /\ Consistent(t)
    /\ branch[t] # 0
    => LET c == commits[branch[t]]
       IN /\ c.parent = run[t].base
          /\ \A i \in 1..2 : /\ c.files[i].pin = run[t].digest
                             /\ c.files[i].text = commits[c.parent].files[i].text

\* The pull request of a run that has ended names the digest that it pins,
\* although the tag has moved since it was opened, or it was opened by hand.
HandledPullTellsThePin ==
  \A t \in Tags :
    run[t].step = "done" /\ run[t].pull # 0 => pulls[run[t].pull].body = run[t].digest

Begun(t) == run[t].step = "files" /\ run[t].got = <<>>

\* Both files pinned, or a pull request open that pins them; or else a file
\* has no pin to set, and every run fails.
Pinned(t) ==
  \/ \A i \in 1..2 : DigestCurrent(commits[head].files[i], registry[t])
  \/ \E i \in 1..2 : commits[head].files[i].pin = NoPin
  \/ /\ branch[t] # 0
     /\ \A i \in 1..2 : DigestCurrent(commits[branch[t]].files[i], registry[t])
     /\ \E n \in OpenPulls(t) : pulls[n].body = registry[t]

\* Whatever failed halfway, runs that are started again come to a pull
\* request that is right, once the world is calm.
RerunsRepair ==
  \A t \in Tags : ([]<>Begun(t) /\ <>calm) => <>[](Pinned(t) /\ calm)

-----------------------------------------------------------------------------
(* What the documentation says and the code does not do.                   *)

\* "The job sets the digest on hypermesh-pricing": the branch differs from
\* the default branch it was made from in the pin and its comment.
ChangesOnlyThePin ==
  \A t \in Tags :
    branch[t] # 0 =>
      LET c == commits[branch[t]]
      IN \A i \in 1..2 : c.files[i].text = commits[c.parent].files[i].text
=============================================================================
