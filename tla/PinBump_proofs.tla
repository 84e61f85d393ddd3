--------------------------- MODULE PinBump_proofs ---------------------------
(***************************************************************************)
(* Proofs about the pin pull requests: whatever developers do between the  *)
(* calls of a run, and whatever the runs for other tags do, the branch     *)
(* that a run leaves is one commit on the base that it has read, and its   *)
(* pull request tells the digest that it pins.                             *)
(***************************************************************************)
EXTENDS PinBump, SequenceTheorems, TLAPS

-----------------------------------------------------------------------------
(* The inductive invariant.                                                *)

Commit == [parent : Nat, files : Files]

PullRequest == [tag : Tags, body : Digests \cup {ByHand},
                state : {"open", "merged", "closed"}]

RunState == [step : Steps, digest : Digests \cup {NoPin}, got : Seq(Content), base : Nat,
             ready : BOOLEAN, exists : BOOLEAN, pull : Nat]

RepositoryOK ==
  /\ commits \in Seq(Commit)
  /\ \A i \in DOMAIN commits : commits[i].parent < i
  /\ head \in 1..Len(commits)
  /\ branch \in [Tags -> 0..Len(commits)]
  /\ pulls \in Seq(PullRequest)
  /\ registry \in [Tags -> Published]
  /\ run \in [Tags -> RunState]
  /\ calm \in BOOLEAN

\* The steps of a run that has read both files.
After == {"head", "branch", "find", "look", "write", "pull"}

\* Where the branch has been written, or was found to be right, and nobody has
\* deleted it since, it is the commit that a consistent run means.
Built(t) ==
  /\ run[t].step \in {"pull", "done"} \/ (run[t].step = "find" /\ run[t].ready)
  /\ Consistent(t)
  /\ branch[t] # 0
  => commits[branch[t]] = [parent |-> run[t].base, files |-> Desired(t)]

RunOK(t) ==
  /\ run[t].base <= Len(commits) /\ run[t].pull <= Len(pulls)
  /\ run[t].step # "idle" => run[t].digest \in Digests
  /\ run[t].step = "files" => Len(run[t].got) < 2 /\ run[t].pull = 0 /\ run[t].base = 0
  /\ run[t].step \in After => Len(run[t].got) = 2
  /\ run[t].step \in After \ {"head"} => run[t].base # 0
  /\ run[t].pull # 0 => pulls[run[t].pull].tag = t
  /\ run[t].step = "done" /\ run[t].pull # 0 => pulls[run[t].pull].body = run[t].digest
  /\ Built(t)

PinInv == RepositoryOK /\ \A t \in Tags : RunOK(t)

-----------------------------------------------------------------------------
(* What is only added to.                                                  *)

LEMMA AppendIs ==
  ASSUME NEW S, NEW s \in Seq(S), NEW x \in S
  PROVE  /\ Append(s, x) \in Seq(S) /\ Len(Append(s, x)) = Len(s) + 1
         /\ DOMAIN s = 1..Len(s) /\ Len(s) \in Nat
         /\ \A i \in 1..Len(s) : Append(s, x)[i] = s[i]
         /\ Append(s, x)[Len(s) + 1] = x
  OBVIOUS

LEMMA PairIs ==
  ASSUME NEW S, NEW s \in Seq(S), Len(s) = 2
  PROVE  s \in [1..2 -> S]
<1>1. s \in [1..Len(s) -> S]
  BY LenProperties
<1> QED
  BY <1>1

LEMMA PutIs ==
  ASSUME NEW S, NEW s \in Seq(S), NEW n \in 1..Len(s), NEW x \in S
  PROVE  /\ [s EXCEPT ![n] = x] \in Seq(S) /\ Len([s EXCEPT ![n] = x]) = Len(s)
         /\ \A i \in 1..Len(s) : [s EXCEPT ![n] = x][i] = IF i = n THEN x ELSE s[i]
  OBVIOUS

LEMMA Bounds ==
  ASSUME RepositoryOK
  PROVE  /\ Len(commits) \in Nat /\ DOMAIN commits = 1..Len(commits)
         /\ Len(pulls) \in Nat /\ DOMAIN pulls = 1..Len(pulls)
         /\ head \in Nat
         /\ \A i \in 1..Len(commits) : commits[i] \in Commit
         /\ \A n \in 1..Len(pulls) : pulls[n] \in PullRequest
  BY DEF RepositoryOK

CommitsGrow ==
  /\ Len(commits) <= Len(commits')
  /\ \A i \in 1..Len(commits) : commits'[i] = commits[i]

PullsGrow ==
  /\ Len(pulls) <= Len(pulls')
  /\ \A n \in 1..Len(pulls) : pulls'[n].tag = pulls[n].tag

\* What a run may not notice leaves its invariant alone.
LEMMA OtherRun ==
  ASSUME PinInv, RepositoryOK', NEW t \in Tags, run'[t] = run[t], CommitsGrow, PullsGrow,
         branch'[t] \in {0, branch[t]},
         run[t].step = "done" /\ run[t].pull # 0 =>
           pulls'[run[t].pull].body = pulls[run[t].pull].body
  PROVE  RunOK(t)'
<1>1. RepositoryOK /\ RunOK(t) /\ run[t] \in RunState
  BY DEF PinInv, RepositoryOK
<1>2. run[t].base \in Nat /\ run[t].pull \in Nat
  BY <1>1 DEF RunState
<1>3. Len(commits') \in Nat /\ Len(pulls') \in Nat
  BY DEF RepositoryOK
<1>4. run'[t].base <= Len(commits') /\ run'[t].pull <= Len(pulls')
  BY <1>1, <1>2, <1>3, Bounds DEF RunOK, CommitsGrow, PullsGrow
<1>5. run[t].pull # 0 => run[t].pull \in 1..Len(pulls)
  BY <1>1, <1>2, Bounds DEF RunOK
<1>6. Built(t)'
  <2> SUFFICES ASSUME run[t].step \in {"pull", "done"} \/ (run[t].step = "find" /\ run[t].ready),
                      run[t].base # 0, run[t].got = commits'[run[t].base].files, branch'[t] # 0
               PROVE  commits'[branch'[t]] = [parent |-> run[t].base, files |-> Desired(t)]
    BY DEF Built, Consistent, Desired
  <2>1. run[t].base \in 1..Len(commits) /\ branch'[t] = branch[t] /\ branch[t] \in 1..Len(commits)
    BY <1>1, <1>2, Bounds DEF RunOK, RepositoryOK
  <2>2. /\ commits'[run[t].base] = commits[run[t].base]
        /\ commits'[branch[t]] = commits[branch[t]]
    BY <2>1 DEF CommitsGrow
  <2> QED
    BY <1>1, <2>1, <2>2 DEF RunOK, Built, Consistent
<1> QED
  BY <1>1, <1>4, <1>5, <1>6 DEF RunOK, PullsGrow

\* A step of one run that touches nothing else.
LEMMA RunMoves ==
  ASSUME PinInv, NEW t \in Tags, UNCHANGED <<remote, registry, calm>>,
         NEW r \in RunState, run' = [run EXCEPT ![t] = r], RunOK(t)'
  PROVE  PinInv'
<1>1. UNCHANGED <<commits, head, branch, pulls, registry, calm>>
  BY DEF remote
<1>2. RepositoryOK'
  BY <1>1 DEF PinInv, RepositoryOK
<1>3. CommitsGrow /\ PullsGrow
  BY <1>1, Bounds DEF PinInv, CommitsGrow, PullsGrow
<1>4. ASSUME NEW u \in Tags, u # t PROVE RunOK(u)'
  <2>1. run'[u] = run[u] /\ branch'[u] \in {0, branch[u]} /\ pulls' = pulls
    BY <1>1, <1>4 DEF PinInv, RepositoryOK
  <2> QED
    BY <1>2, <1>3, <2>1, OtherRun
<1> QED
  BY <1>2, <1>4 DEF PinInv

LEMMA RunIs ==
  ASSUME PinInv, NEW t \in Tags
  PROVE  /\ RepositoryOK /\ RunOK(t) /\ run[t] \in RunState
         /\ run[t].base \in Nat /\ run[t].pull \in Nat /\ run[t].got \in Seq(Content)
         /\ \A r : [run EXCEPT ![t] = r][t] = r
  BY DEF PinInv, RepositoryOK, RunState

LEMMA IdleIs ==
  /\ Idle \in RunState
  /\ Idle.step = "idle" /\ Idle.got = <<>> /\ Idle.base = 0 /\ Idle.pull = 0
  BY DEF Idle, RunState, Steps

LEMMA BeginKeeps ==
  ASSUME PinInv, NEW t \in Tags, Begin(t)
  PROVE  PinInv'
<1> DEFINE r == [Idle EXCEPT !.step = "files", !.digest = registry[t]]
<1>1. UNCHANGED <<remote, registry, calm>> /\ run' = [run EXCEPT ![t] = r]
  BY DEF Begin
<1>2. registry[t] \in Digests
  BY PinAssumption DEF PinInv, RepositoryOK
<1>3. /\ r.step = "files" /\ r.digest = registry[t]
      /\ r.got = <<>> /\ r.base = 0 /\ r.pull = 0
  BY IdleIs DEF RunState
<1>4. r \in RunState
  BY <1>2, IdleIs DEF RunState, Steps
<1> HIDE DEF r
<1>5. run'[t] = r
  BY <1>1, RunIs
<1>6. RunOK(t)'
  BY <1>1, <1>2, <1>3, <1>5, RunIs, Bounds DEF RunOK, After, Built, Consistent, remote
<1> QED
  BY <1>1, <1>4, <1>6, RunMoves

LEMMA FailsKeeps ==
  ASSUME PinInv, NEW t \in Tags, Fails(t), UNCHANGED <<remote, registry, calm>>
  PROVE  PinInv'
<1>1. run' = [run EXCEPT ![t] = Idle] /\ run'[t] = Idle
  BY RunIs DEF Fails
<1>2. RunOK(t)'
  BY <1>1, IdleIs, RunIs, Bounds DEF RunOK, After, Built, Consistent, remote
<1> QED
  BY <1>1, <1>2, IdleIs, RunMoves

LEMMA ReadFileKeeps ==
  ASSUME PinInv, NEW t \in Tags, ReadFile(t)
  PROVE  PinInv'
<1> DEFINE got == Append(run[t].got, commits[head].files[Len(run[t].got) + 1])
<1>1. run[t].step = "files" /\ UNCHANGED <<remote, registry, calm>>
  BY DEF ReadFile
<1>2. Len(run[t].got) \in Nat /\ Len(run[t].got) < 2 /\ run[t].pull = 0
  BY <1>1, RunIs DEF RunOK
<1>3. commits[head].files[Len(run[t].got) + 1] \in Content
  <2>1. head \in 1..Len(commits) /\ commits[head] \in Commit
    BY RunIs, Bounds DEF RepositoryOK
  <2>2. Len(run[t].got) + 1 \in 1..2
    BY <1>2
  <2> QED
    BY <2>1, <2>2 DEF Commit, Files
<1>4. got \in Seq(Content) /\ Len(got) = Len(run[t].got) + 1
  BY <1>3, RunIs, AppendIs
<1>5. \/ Fails(t)
      \/ Len(got) < 2 /\ run' = [run EXCEPT ![t].got = got]
      \/ /\ Len(got) = 2
         /\ \/ run' = [run EXCEPT ![t].got = got, ![t].step = "done"]
            \/ run' = [run EXCEPT ![t].got = got, ![t].step = "head"]
  BY DEF ReadFile
<1> HIDE DEF got
<1>6. ASSUME NEW step \in {"files", "done", "head"},
             run' = [run EXCEPT ![t] = [run[t] EXCEPT !.got = got, !.step = step]],
             IF step = "files" THEN Len(got) < 2 ELSE Len(got) = 2
      PROVE  PinInv'
  <2> DEFINE r == [run[t] EXCEPT !.got = got, !.step = step]
  <2>1. /\ r \in RunState /\ r.step = step /\ r.got = got /\ r.pull = 0
        /\ r.digest = run[t].digest /\ r.base = run[t].base
    BY <1>2, <1>4, <1>6, RunIs DEF RunState, Steps
  <2>2. run' = [run EXCEPT ![t] = r]
    BY <1>6
  <2> HIDE DEF r
  <2>3. run'[t] = r
    BY <2>2, RunIs
  <2>4. UNCHANGED <<commits, head, branch, pulls>>
    BY <1>1 DEF remote
  <2>5. /\ step # "find" /\ run[t].digest \in Digests
        /\ run[t].base <= Len(commits) /\ run[t].base = 0
    BY <1>1, RunIs DEF RunOK
  <2>6. run'[t].base = 0 /\ run'[t].pull = 0 /\ run'[t].step = step
        /\ run'[t].got = got /\ run'[t].digest \in Digests
    BY <2>1, <2>3, <2>5
  <2>7. Built(t)'
    BY <2>6 DEF Built, Consistent
  <2>8. Len(commits') \in Nat /\ Len(pulls') \in Nat
    BY <2>4, RunIs, Bounds
  <2>9. RunOK(t)'
    BY <1>6, <2>5, <2>6, <2>7, <2>8 DEF RunOK, After
  <2> QED
    BY <1>1, <2>1, <2>2, <2>9, RunMoves
<1>7. CASE Len(got) < 2 /\ run' = [run EXCEPT ![t].got = got]
  <2>1. [run[t] EXCEPT !.got = got] = [run[t] EXCEPT !.got = got, !.step = "files"]
    BY <1>1, <1>4, RunIs DEF RunState
  <2> QED
    BY <1>6, <1>7, <2>1
<1> QED
  BY <1>1, <1>5, <1>6, <1>7, FailsKeeps

\* The steps that read, and where they go.
LEMMA ReadsKeep ==
  ASSUME PinInv, NEW t \in Tags,
         ReadHead(t) \/ ReadBranch(t) \/ FindPull(t) \/ LookBranch(t)
  PROVE  PinInv'
<1>1. UNCHANGED <<remote, registry, calm>>
  BY DEF ReadHead, ReadBranch, FindPull, LookBranch
<1>2. UNCHANGED <<commits, head, branch, pulls>>
  BY <1>1 DEF remote
<1>3. /\ run[t].step \in After => Len(run[t].got) = 2 /\ run[t].digest \in Digests
      /\ run[t].base <= Len(commits) /\ run[t].pull <= Len(pulls)
      /\ run[t].pull # 0 => pulls[run[t].pull].tag = t
      /\ run[t].step \in After \ {"head"} => run[t].base # 0
  BY RunIs DEF RunOK, After
<1>4. CASE ReadHead(t)
  <2> DEFINE r == [run[t] EXCEPT !.base = head, !.step = "branch"]
  <2>1. head \in 1..Len(commits) /\ Len(commits) \in Nat /\ head \in Nat
    BY RunIs, Bounds DEF RepositoryOK
  <2>2. /\ r \in RunState /\ r.step = "branch" /\ r.base = head /\ r.got = run[t].got
        /\ r.digest = run[t].digest /\ r.pull = run[t].pull
    BY <2>1, RunIs DEF RunState, Steps
  <2>3. run[t].step = "head" /\ run' = [run EXCEPT ![t] = r]
    BY <1>4 DEF ReadHead
  <2> HIDE DEF r
  <2>4. run'[t] = r
    BY <2>3, RunIs
  <2>5. RunOK(t)'
    BY <1>2, <1>3, <2>1, <2>2, <2>3, <2>4 DEF RunOK, After, Built
  <2> QED
    BY <1>1, <2>2, <2>3, <2>5, RunMoves
<1>5. CASE ReadBranch(t)
  <2> DEFINE r == [run[t] EXCEPT !.ready = Ready(t), !.step = "find"]
  <2>1. Ready(t) \in BOOLEAN
    BY DEF Ready
  <2>2. /\ r \in RunState /\ r.step = "find" /\ r.ready = Ready(t)
        /\ r.base = run[t].base /\ r.got = run[t].got
        /\ r.digest = run[t].digest /\ r.pull = run[t].pull
    BY <2>1, RunIs DEF RunState, Steps
  <2>3. run[t].step = "branch" /\ run' = [run EXCEPT ![t] = r]
    BY <1>5 DEF ReadBranch
  <2> HIDE DEF r
  <2>4. run'[t] = r
    BY <2>3, RunIs
  <2>5. Built(t)'
    <3> SUFFICES ASSUME Ready(t), branch[t] # 0
                 PROVE  commits[branch[t]] = [parent |-> run[t].base, files |-> Desired(t)']
      BY <1>2, <2>2, <2>4 DEF Built
    <3>1. Desired(t)' = Desired(t)
      BY <2>2, <2>4 DEF Desired
    <3>2. branch[t] \in 1..Len(commits)
      BY RunIs, Bounds DEF RepositoryOK
    <3>3. commits[branch[t]] \in Commit
      BY <3>2, RunIs, Bounds
    <3> QED
      BY <3>1, <3>3 DEF Ready, Commit
  <2>6. RunOK(t)'
    BY <1>2, <1>3, <2>2, <2>3, <2>4, <2>5 DEF RunOK, After
  <2> QED
    BY <1>1, <2>2, <2>3, <2>6, RunMoves
<1>6. ASSUME NEW n \in {run[t].pull} \cup OpenPulls(t), NEW step \in {"pull", "look"},
             step = NextStep(t), run[t].step = "find",
             run' = [run EXCEPT ![t] = [run[t] EXCEPT !.pull = n, !.step = step]]
      PROVE  PinInv'
  <2> DEFINE r == [run[t] EXCEPT !.pull = n, !.step = step]
  <2>1. n \in Nat /\ n <= Len(pulls) /\ (n # 0 => pulls[n].tag = t)
    BY <1>3, RunIs, Bounds DEF OpenPulls
  <2>2. /\ r \in RunState /\ r.step = step /\ r.pull = n /\ r.base = run[t].base
        /\ r.got = run[t].got /\ r.digest = run[t].digest
    <3>1. run[t] \in RunState /\ n \in Nat /\ step \in Steps
      BY <2>1, RunIs DEF Steps
    <3> QED
      BY <3>1 DEF RunState
  <2>3. run' = [run EXCEPT ![t] = r]
    BY <1>6
  <2> HIDE DEF r
  <2>4. run'[t] = r
    BY <2>3, RunIs
  <2>5. Built(t)'
    <3> SUFFICES ASSUME step = "pull", Consistent(t), branch[t] # 0
                 PROVE  commits[branch[t]] = [parent |-> run[t].base, files |-> Desired(t)']
      BY <1>2, <1>6, <2>2, <2>4 DEF Built, Consistent
    <3>1. run[t].ready
      BY <1>6 DEF NextStep
    <3>2. Desired(t)' = Desired(t)
      BY <2>2, <2>4 DEF Desired
    <3> QED
      BY <1>6, <3>1, <3>2, RunIs DEF RunOK, Built
  <2>6. RunOK(t)'
    BY <1>2, <1>3, <1>6, <2>1, <2>2, <2>4, <2>5 DEF RunOK, After
  <2> QED
    BY <1>1, <2>2, <2>3, <2>6, RunMoves
<1>7. CASE FindPull(t)
  <2>1. run[t].step = "find" /\ NextStep(t) \in {"pull", "look"}
    BY <1>7 DEF FindPull, NextStep
  <2>2. CASE Moves(t, NextStep(t))
    <3>1. [run[t] EXCEPT !.step = NextStep(t)]
            = [run[t] EXCEPT !.pull = run[t].pull, !.step = NextStep(t)]
      BY RunIs DEF RunState
    <3> QED
      BY <1>6, <2>1, <2>2, <3>1 DEF Moves
  <2>3. ASSUME NEW n \in OpenPulls(t),
               run' = [run EXCEPT ![t].pull = n, ![t].step = NextStep(t)]
        PROVE  PinInv'
    BY <1>6, <2>1, <2>3
  <2> QED
    BY <1>7, <2>2, <2>3 DEF FindPull
<1>8. CASE LookBranch(t)
  <2> DEFINE r == [run[t] EXCEPT !.exists = (branch[t] # 0), !.step = "write"]
  <2>1. /\ r \in RunState /\ r.step = "write" /\ r.base = run[t].base
        /\ r.got = run[t].got /\ r.digest = run[t].digest /\ r.pull = run[t].pull
    BY RunIs DEF RunState, Steps
  <2>2. run[t].step = "look" /\ run' = [run EXCEPT ![t] = r]
    BY <1>8 DEF LookBranch
  <2> HIDE DEF r
  <2>3. run'[t] = r
    BY <2>2, RunIs
  <2>4. RunOK(t)'
    BY <1>2, <1>3, <2>1, <2>2, <2>3 DEF RunOK, After, Built
  <2> QED
    BY <1>1, <2>1, <2>2, <2>4, RunMoves
<1> QED
  BY <1>4, <1>5, <1>7, <1>8

\* A commit is appended, unless there is one that is the same.
LEMMA RecordIs ==
  ASSUME RepositoryOK, NEW c \in Commit, c.parent <= Len(commits), Record(c)
  PROVE  /\ commits' \in Seq(Commit) /\ CommitsGrow
         /\ \A i \in DOMAIN commits' : commits'[i].parent < i
         /\ CommitId(c) \in 1..Len(commits') /\ commits'[CommitId(c)] = c
<1>1. commits \in Seq(Commit) /\ Len(commits) \in Nat /\ DOMAIN commits = 1..Len(commits)
  BY Bounds DEF RepositoryOK
<1>2. CASE \E i \in DOMAIN commits : commits[i] = c
  <2>1. CommitId(c) \in DOMAIN commits /\ commits[CommitId(c)] = c
    BY <1>2 DEF CommitId
  <2>2. ~(CommitId(c) > Len(commits))
    BY <1>1, <2>1
  <2>3. commits' = commits
    BY <2>2 DEF Record
  <2> QED
    BY <1>1, <2>1, <2>3 DEF CommitsGrow, RepositoryOK
<1>3. CASE ~\E i \in DOMAIN commits : commits[i] = c
  <2>1. CommitId(c) = Len(commits) + 1
    BY <1>3 DEF CommitId
  <2>2. commits' = Append(commits, c)
    <3>1. CommitId(c) > Len(commits)
      BY <1>1, <2>1
    <3> QED
      BY <3>1 DEF Record
  <2>3. /\ commits' \in Seq(Commit) /\ Len(commits') = Len(commits) + 1
        /\ \A i \in 1..Len(commits) : commits'[i] = commits[i]
        /\ commits'[Len(commits) + 1] = c
    BY <1>1, <2>2, AppendIs
  <2>4. DOMAIN commits' = 1..(Len(commits) + 1)
    BY <2>3
  <2>5. ASSUME NEW i \in 1..(Len(commits) + 1) PROVE commits'[i].parent < i
    <3>1. CASE i \in 1..Len(commits)
      BY <1>1, <2>3, <3>1 DEF RepositoryOK
    <3>2. CASE i = Len(commits) + 1
      BY <1>1, <2>3, <3>2 DEF Commit
    <3> QED
      BY <1>1, <3>1, <3>2
  <2> QED
    BY <1>1, <2>1, <2>3, <2>4, <2>5 DEF CommitsGrow
<1> QED
  BY <1>2, <1>3

\* What a run commits.
LEMMA TreeIs ==
  ASSUME PinInv, NEW t \in Tags, run[t].step = "write"
  PROVE  /\ [parent |-> Parent(t), files |-> Tree(t)] \in Commit
         /\ Parent(t) = run[t].base /\ run[t].base \in 1..Len(commits)
         /\ Consistent(t) => Tree(t) = Desired(t)
<1>1. /\ run[t].base \in 1..Len(commits) /\ run[t].base \in Nat
      /\ run[t].got \in Seq(Content) /\ Len(run[t].got) = 2 /\ run[t].digest \in Digests
  BY RunIs, Bounds DEF RunOK, After
<1>2. \A i \in 1..2 : run[t].got[i] \in Content
  BY <1>1
<1>3. commits[run[t].base].files \in Files
  BY <1>1, RunIs, Bounds DEF Commit
<1>4. \A i \in 1..2 : Desired(t)[i] \in Content
  BY <1>1, <1>2 DEF Desired, Rewrite, Content
<1>5. \A i \in 1..2 : Tree(t)[i] \in Content
  BY <1>3, <1>4 DEF Tree, Files
<1>6. Tree(t) \in Files
  BY <1>5 DEF Tree, Files
<1>7. Consistent(t) => Tree(t) = Desired(t)
  <2> SUFFICES ASSUME Consistent(t) PROVE \A i \in 1..2 : Tree(t)[i] = Desired(t)[i]
    BY DEF Tree, Desired
  <2> QED
    BY DEF Tree, Consistent
<1> QED
  BY <1>1, <1>6, <1>7 DEF Parent, Commit

LEMMA WriteBranchKeeps ==
  ASSUME PinInv, NEW t \in Tags, WriteBranch(t)
  PROVE  PinInv'
<1> DEFINE c == [parent |-> Parent(t), files |-> Tree(t)]
           r == [run[t] EXCEPT !.step = "pull"]
<1>1. CASE Fails(t) /\ UNCHANGED <<remote, registry, calm>>
  BY <1>1, FailsKeeps
<1>2. CASE /\ Record(c) /\ branch' = [branch EXCEPT ![t] = CommitId(c)]
           /\ run' = [run EXCEPT ![t] = r]
           /\ UNCHANGED <<head, pulls, registry, calm>> /\ run[t].step = "write"
  <2>1. /\ r \in RunState /\ r.step = "pull" /\ r.base = run[t].base
        /\ r.got = run[t].got /\ r.digest = run[t].digest /\ r.pull = run[t].pull
    BY RunIs DEF RunState, Steps
  <2>2. /\ c \in Commit /\ c.parent = run[t].base /\ c.parent <= Len(commits)
        /\ run[t].base \in 1..Len(commits)
    BY <1>2, TreeIs, RunIs, Bounds
  <2>3. /\ commits' \in Seq(Commit) /\ CommitsGrow
        /\ \A i \in DOMAIN commits' : commits'[i].parent < i
        /\ CommitId(c) \in 1..Len(commits') /\ commits'[CommitId(c)] = c
    BY <1>2, <2>2, RunIs, RecordIs
  <2>4. Consistent(t) => c = [parent |-> run[t].base, files |-> Desired(t)]
    BY <1>2, TreeIs
  <2> HIDE DEF c, r
  <2>5. Len(commits) \in Nat /\ Len(commits') \in Nat
    BY <2>3, RunIs, Bounds
  <2>6. RepositoryOK'
    <3>1. head' \in 1..Len(commits')
      BY <1>2, <2>3, <2>5, RunIs DEF RepositoryOK, CommitsGrow
    <3>2. branch' \in [Tags -> 0..Len(commits')]
      <4>1. 0..Len(commits) \subseteq 0..Len(commits') /\ CommitId(c) \in 0..Len(commits')
        BY <2>3, <2>5 DEF CommitsGrow
      <4> QED
        BY <1>2, <4>1, RunIs DEF RepositoryOK
    <3>3. run' \in [Tags -> RunState]
      BY <1>2, <2>1, RunIs DEF RepositoryOK
    <3> QED
      BY <1>2, <2>3, <3>1, <3>2, <3>3, RunIs DEF RepositoryOK
  <2>7. PullsGrow /\ pulls' = pulls
    BY <1>2, RunIs, Bounds DEF PullsGrow
  <2>8. ASSUME NEW u \in Tags, u # t PROVE RunOK(u)'
    <3>1. run'[u] = run[u] /\ branch'[u] = branch[u]
      BY <1>2, <2>8, RunIs DEF RepositoryOK
    <3> QED
      BY <2>3, <2>6, <2>7, <3>1, OtherRun
  <2>9. RunOK(t)'
    <3>1. run'[t] = r /\ branch'[t] = CommitId(c)
      BY <1>2, RunIs DEF RepositoryOK
    <3>2. Built(t)'
      <4>1. Desired(t)' = Desired(t)
        BY <2>1, <3>1 DEF Desired
      <4>2. Consistent(t)' => Consistent(t)
        BY <2>1, <2>2, <2>3, <3>1 DEF Consistent, CommitsGrow
      <4> QED
        BY <2>1, <2>3, <2>4, <3>1, <4>1, <4>2 DEF Built
    <3>3. run[t].base <= Len(commits')
      BY <2>2, <2>3, <2>5, RunIs DEF CommitsGrow
    <3> QED
      BY <1>2, <2>1, <2>7, <3>1, <3>2, <3>3, RunIs DEF RunOK, After
  <2> QED
    BY <2>6, <2>8, <2>9 DEF PinInv
<1> QED
  BY <1>1, <1>2 DEF WriteBranch, Moves

\* The end of a run: the pull request it has handled tells its digest.
LEMMA PullKeeps ==
  ASSUME PinInv, NEW t \in Tags, run[t].step = "pull",
         UNCHANGED <<commits, head, branch, registry, calm>>,
         pulls' \in Seq(PullRequest), PullsGrow,
         NEW n \in 1..Len(pulls'), pulls'[n].tag = t, pulls'[n].body = run[t].digest,
         \A m \in 1..Len(pulls) : m # n => pulls'[m] = pulls[m],
         run' = [run EXCEPT ![t] = [run[t] EXCEPT !.pull = n, !.step = "done"]]
  PROVE  PinInv'
<1> DEFINE r == [run[t] EXCEPT !.pull = n, !.step = "done"]
<1>1. n \in Nat /\ n # 0 /\ n <= Len(pulls')
  OBVIOUS
<1>2. /\ r \in RunState /\ r.step = "done" /\ r.base = run[t].base
      /\ r.got = run[t].got /\ r.digest = run[t].digest /\ r.pull = n
  <2>1. run[t] \in RunState
    BY RunIs
  <2> QED
    BY <1>1, <2>1 DEF RunState, Steps
<1>3. run' = [run EXCEPT ![t] = r]
  OBVIOUS
<1> HIDE DEF r
<1>4. RepositoryOK'
  BY <1>2, <1>3, RunIs DEF RepositoryOK
<1>5. CommitsGrow
  BY RunIs, Bounds DEF CommitsGrow
<1>6. ASSUME NEW u \in Tags, u # t PROVE RunOK(u)'
  <2>1. run'[u] = run[u] /\ branch'[u] = branch[u]
    BY <1>3, <1>6, RunIs DEF RepositoryOK
  <2>2. ASSUME run[u].pull # 0 PROVE pulls'[run[u].pull] = pulls[run[u].pull]
    <3>1. run[u].pull \in 1..Len(pulls) /\ pulls[run[u].pull].tag = u
      BY <2>2, RunIs, Bounds DEF RunOK
    <3>2. run[u].pull # n
      BY <1>6, <3>1 DEF PullsGrow
    <3> QED
      BY <3>1, <3>2
  <2> QED
    BY <1>4, <1>5, <2>1, <2>2, OtherRun
<1>7. RunOK(t)'
  <2>1. run'[t] = r
    BY <1>3, RunIs DEF RepositoryOK
  <2>2. Built(t)'
    BY <1>2, <2>1, RunIs DEF RunOK, Built, Consistent, Desired
  <2> QED
    BY <1>1, <1>2, <2>1, <2>2, RunIs DEF RunOK, After
<1> QED
  BY <1>4, <1>6, <1>7 DEF PinInv

LEMMA CreatePullKeeps ==
  ASSUME PinInv, NEW t \in Tags, CreatePull(t) \/ UpdatePull(t)
  PROVE  PinInv'
<1>1. run[t].step = "pull" /\ UNCHANGED <<registry, calm>>
  BY DEF CreatePull, UpdatePull
<1>2. /\ run[t].digest \in Digests /\ pulls \in Seq(PullRequest) /\ Len(pulls) \in Nat
      /\ DOMAIN pulls = 1..Len(pulls) /\ \A m \in 1..Len(pulls) : pulls[m] \in PullRequest
  BY <1>1, RunIs, Bounds DEF RunOK, RepositoryOK
<1>3. CASE Fails(t) /\ UNCHANGED remote
  BY <1>1, <1>3, FailsKeeps
<1>4. CASE /\ pulls' = Append(pulls, PullOf(t, run[t].digest))
           /\ run' = [run EXCEPT ![t].pull = Len(pulls) + 1, ![t].step = "done"]
           /\ UNCHANGED <<commits, head, branch>>
  <2>1. PullOf(t, run[t].digest) \in PullRequest
    BY <1>2 DEF PullOf, PullRequest
  <2>2. /\ pulls' \in Seq(PullRequest) /\ Len(pulls') = Len(pulls) + 1
        /\ \A m \in 1..Len(pulls) : pulls'[m] = pulls[m]
        /\ pulls'[Len(pulls) + 1] = PullOf(t, run[t].digest)
    BY <1>2, <1>4, <2>1, AppendIs
  <2>3. PullsGrow /\ Len(pulls) + 1 \in 1..Len(pulls')
    BY <1>2, <2>2 DEF PullsGrow
  <2>4. /\ pulls'[Len(pulls) + 1].tag = t
        /\ pulls'[Len(pulls) + 1].body = run[t].digest
    BY <2>2 DEF PullOf
  <2> QED
    BY <1>1, <1>4, <2>2, <2>3, <2>4, PullKeeps
<1>5. ASSUME NEW n \in 1..Len(pulls), pulls[n].tag = t,
             pulls' = [pulls EXCEPT ![n].body = run[t].digest],
             run' = [run EXCEPT ![t].pull = n, ![t].step = "done"],
             UNCHANGED <<commits, head, branch>>
      PROVE  PinInv'
  <2> DEFINE p == [pulls[n] EXCEPT !.body = run[t].digest]
  <2>1. p \in PullRequest /\ p.tag = t /\ p.body = run[t].digest
    BY <1>2, <1>5 DEF PullRequest
  <2>2. pulls' = [pulls EXCEPT ![n] = p]
    BY <1>5
  <2> HIDE DEF p
  <2>3. /\ pulls' \in Seq(PullRequest) /\ Len(pulls') = Len(pulls)
        /\ \A m \in 1..Len(pulls) : pulls'[m] = IF m = n THEN p ELSE pulls[m]
    BY <1>2, <2>1, <2>2, PutIs
  <2>4. PullsGrow
    BY <1>2, <1>5, <2>1, <2>3 DEF PullsGrow
  <2>5. /\ n \in 1..Len(pulls') /\ pulls'[n].tag = t /\ pulls'[n].body = run[t].digest
        /\ \A m \in 1..Len(pulls) : m # n => pulls'[m] = pulls[m]
    BY <1>2, <2>1, <2>3
  <2>6. run' = [run EXCEPT ![t] = [run[t] EXCEPT !.pull = n, !.step = "done"]]
    BY <1>5, RunIs DEF RepositoryOK
  <2>7. run[t].step = "pull" /\ UNCHANGED <<commits, head, branch, registry, calm>>
    BY <1>1, <1>5
  <2>8. pulls' \in Seq(PullRequest)
    BY <2>3
  <2> QED
    BY <2>4, <2>5, <2>6, <2>7, <2>8, PullKeeps
<1>6. CASE UpdatePull(t)
  <2>1. run[t].pull \in 1..Len(pulls) /\ pulls[run[t].pull].tag = t
    BY <1>2, <1>6, RunIs DEF UpdatePull, RunOK
  <2>2. [run[t] EXCEPT !.step = "done"] = [run[t] EXCEPT !.pull = run[t].pull, !.step = "done"]
    BY RunIs DEF RunState
  <2> QED
    BY <1>5, <1>6, <2>1, <2>2 DEF UpdatePull, BodyFor, Moves
<1>7. ASSUME NEW n \in OpenPulls(t),
             pulls' = [pulls EXCEPT ![n].body = run[t].digest],
             run' = [run EXCEPT ![t].pull = n, ![t].step = "done"],
             UNCHANGED <<commits, head, branch>>
      PROVE  PinInv'
  <2>1. n \in 1..Len(pulls) /\ pulls[n].tag = t
    BY <1>2 DEF OpenPulls
  <2> QED
    BY <1>5, <1>7, <2>1
<1> QED
  BY <1>3, <1>4, <1>6, <1>7 DEF CreatePull

-----------------------------------------------------------------------------
(* Everybody else.                                                         *)

\* What developers do between the calls of the runs: they add commits, and may
\* delete branches.
LEMMA OthersKeep ==
  ASSUME PinInv, RepositoryOK', run' = run, CommitsGrow, PullsGrow,
         \A t \in Tags : branch'[t] \in {0, branch[t]},
         \A n \in 1..Len(pulls) : pulls'[n].body = pulls[n].body
  PROVE  PinInv'
<1>1. ASSUME NEW t \in Tags PROVE RunOK(t)'
  <2>1. run[t].pull # 0 => run[t].pull \in 1..Len(pulls)
    BY RunIs, Bounds DEF RunOK
  <2> QED
    BY <2>1, OtherRun
<1> QED
  BY <1>1 DEF PinInv

\* A commit of a developer on the head of the default branch.
LEMMA CommitKeeps ==
  ASSUME PinInv, NEW files \in Files,
         commits' = Append(commits, [parent |-> head, files |-> files]),
         head' = Len(commits) + 1, UNCHANGED <<registry, run, calm>>,
         branch' \in [Tags -> Nat], \A t \in Tags : branch'[t] \in {0, branch[t]},
         pulls' \in Seq(PullRequest), PullsGrow,
         \A n \in 1..Len(pulls) : pulls'[n].body = pulls[n].body
  PROVE  PinInv'
<1> DEFINE c == [parent |-> head, files |-> files]
<1>1. RepositoryOK
  BY DEF PinInv
<1>2. c \in Commit /\ head \in 1..Len(commits) /\ Len(commits) \in Nat /\ c.parent = head
  BY <1>1, Bounds DEF RepositoryOK, Commit
<1> HIDE DEF c
<1>3. /\ commits' \in Seq(Commit) /\ Len(commits') = Len(commits) + 1
      /\ \A i \in 1..Len(commits) : commits'[i] = commits[i]
      /\ commits'[Len(commits) + 1] = c
  <2>1. commits' = Append(commits, c)
    BY DEF c
  <2> QED
    BY <1>1, <1>2, <2>1, AppendIs DEF RepositoryOK
<1>4. CommitsGrow /\ head' \in 1..Len(commits')
  BY <1>2, <1>3 DEF CommitsGrow
<1>5. \A i \in DOMAIN commits' : commits'[i].parent < i
  <2>1. DOMAIN commits' = 1..(Len(commits) + 1)
    BY <1>3
  <2>2. ASSUME NEW i \in 1..(Len(commits) + 1) PROVE commits'[i].parent < i
    <3>1. CASE i \in 1..Len(commits)
      BY <1>1, <1>3, <3>1, Bounds DEF RepositoryOK
    <3>2. CASE i = Len(commits) + 1
      BY <1>2, <1>3, <3>2
    <3> QED
      BY <1>2, <3>1, <3>2
  <2> QED
    BY <2>1, <2>2
<1>6. branch' \in [Tags -> 0..Len(commits')]
  <2>1. \A t \in Tags : branch'[t] \in 0..Len(commits')
    BY <1>1, <1>2, <1>3 DEF RepositoryOK
  <2> QED
    BY <2>1
<1>7. RepositoryOK'
  BY <1>1, <1>3, <1>4, <1>5, <1>6 DEF RepositoryOK
<1> QED
  BY <1>4, <1>7, OthersKeep

LEMMA EditKeeps ==
  ASSUME PinInv, NEW i \in 1..2, Edit(i)
  PROVE  PinInv'
<1> DEFINE files == [commits[head].files EXCEPT ![i].text = @ + 1]
<1>1. /\ commits' = Append(commits, [parent |-> head, files |-> files])
      /\ head' = Len(commits) + 1 /\ UNCHANGED <<branch, pulls, registry, run, calm>>
  BY DEF Edit
<1>2. commits[head].files \in Files
  BY Bounds DEF PinInv, RepositoryOK, Commit
<1>3. files \in Files
  BY <1>2 DEF Files, Content
<1> HIDE DEF files
<1>4. branch \in [Tags -> Nat] /\ pulls \in Seq(PullRequest) /\ PullsGrow
  BY <1>1, Bounds DEF PinInv, RepositoryOK, PullsGrow
<1> QED
  BY <1>1, <1>3, <1>4, CommitKeeps

\* A pull request that changes its state.
LEMMA StateKeeps ==
  ASSUME PinInv, NEW n \in 1..Len(pulls), NEW state \in {"merged", "closed"},
         pulls' = [pulls EXCEPT ![n].state = state]
  PROVE  /\ pulls' \in Seq(PullRequest) /\ PullsGrow
         /\ \A m \in 1..Len(pulls) : pulls'[m].body = pulls[m].body
<1> DEFINE p == [pulls[n] EXCEPT !.state = state]
<1>1. /\ pulls \in Seq(PullRequest) /\ Len(pulls) \in Nat
      /\ \A m \in 1..Len(pulls) : pulls[m] \in PullRequest
  BY Bounds DEF PinInv, RepositoryOK
<1>2. p \in PullRequest /\ p.tag = pulls[n].tag /\ p.body = pulls[n].body
  BY <1>1 DEF PullRequest
<1>3. pulls' = [pulls EXCEPT ![n] = p]
  OBVIOUS
<1> HIDE DEF p
<1>4. /\ pulls' \in Seq(PullRequest) /\ Len(pulls') = Len(pulls)
      /\ \A m \in 1..Len(pulls) : pulls'[m] = IF m = n THEN p ELSE pulls[m]
  BY <1>1, <1>2, <1>3, PutIs
<1> QED
  BY <1>1, <1>2, <1>4 DEF PullsGrow

LEMMA BranchDeleted ==
  ASSUME PinInv, NEW t \in Tags, branch' = [branch EXCEPT ![t] = 0] \/ branch' = branch
  PROVE  /\ branch' \in [Tags -> 0..Len(commits)] /\ branch' \in [Tags -> Nat]
         /\ \A u \in Tags : branch'[u] \in {0, branch[u]}
<1>1. branch \in [Tags -> 0..Len(commits)] /\ Len(commits) \in Nat
  BY Bounds DEF PinInv, RepositoryOK
<1> QED
  BY <1>1

LEMMA MergeKeeps ==
  ASSUME PinInv, NEW n \in DOMAIN pulls, Merge(n)
  PROVE  PinInv'
<1> DEFINE t == pulls[n].tag
<1>1. RepositoryOK /\ n \in 1..Len(pulls) /\ t \in Tags
  BY Bounds DEF PinInv, PullRequest
<1>2. /\ branch[t] # 0
      /\ commits' = Append(commits, [parent |-> head, files |-> MergedFiles(t)])
      /\ head' = Len(commits) + 1
      /\ pulls' = [pulls EXCEPT ![n].state = "merged"]
      /\ branch' = [branch EXCEPT ![t] = 0] \/ branch' = branch
      /\ UNCHANGED <<registry, run, calm>>
  BY DEF Merge
<1> HIDE DEF t
<1>3. MergedFiles(t) \in Files
  <2>1. branch[t] \in 1..Len(commits) /\ head \in 1..Len(commits)
    BY <1>1, <1>2, Bounds DEF RepositoryOK
  <2>2. /\ commits[branch[t]].files \in Files /\ commits[head].files \in Files
    BY <1>1, <2>1, Bounds DEF Commit
  <2>3. ASSUME NEW i \in 1..2 PROVE MergedFiles(t)[i] \in Content
    <3> DEFINE mine == commits[branch[t]].files[i]
               old == commits[commits[branch[t]].parent].files[i]
               theirs == commits[head].files[i]
    <3>1. mine \in Content /\ theirs \in Content
      BY <2>2, <2>3 DEF Files
    <3>2. MergedFiles(t)[i] = [f \in Fields |-> Merged(mine[f], old[f], theirs[f])]
      BY DEF MergedFiles, Versions
    <3> HIDE DEF mine, old, theirs
    <3>3. \A f \in Fields : Merged(mine[f], old[f], theirs[f]) \in {mine[f], theirs[f]}
      BY DEF Merged
    <3>4. Fields = {"pin", "note", "text"}
      BY DEF Fields
    <3>5. MergedFiles(t)[i] = [pin |-> Merged(mine.pin, old.pin, theirs.pin),
                               note |-> Merged(mine.note, old.note, theirs.note),
                               text |-> Merged(mine.text, old.text, theirs.text)]
      BY <3>2, <3>4
    <3> QED
      BY <3>1, <3>5 DEF Content, Merged
  <2> QED
    BY <2>3 DEF MergedFiles, Files
<1>4. /\ pulls' \in Seq(PullRequest) /\ PullsGrow
      /\ \A m \in 1..Len(pulls) : pulls'[m].body = pulls[m].body
  BY <1>1, <1>2, StateKeeps
<1>5. /\ branch' \in [Tags -> Nat] /\ \A u \in Tags : branch'[u] \in {0, branch[u]}
  BY <1>1, <1>2, BranchDeleted
<1> QED
  BY <1>2, <1>3, <1>4, <1>5, CommitKeeps

LEMMA CloseKeeps ==
  ASSUME PinInv, NEW n \in DOMAIN pulls, Close(n)
  PROVE  PinInv'
<1>1. RepositoryOK /\ n \in 1..Len(pulls) /\ pulls[n].tag \in Tags
  BY Bounds DEF PinInv, PullRequest
<1>2. /\ pulls' = [pulls EXCEPT ![n].state = "closed"]
      /\ branch' = [branch EXCEPT ![pulls[n].tag] = 0] \/ branch' = branch
      /\ UNCHANGED <<commits, head, registry, run, calm>>
  BY DEF Close
<1>3. /\ pulls' \in Seq(PullRequest) /\ PullsGrow
      /\ \A m \in 1..Len(pulls) : pulls'[m].body = pulls[m].body
  BY <1>1, <1>2, StateKeeps
<1>4. /\ branch' \in [Tags -> 0..Len(commits)]
      /\ \A u \in Tags : branch'[u] \in {0, branch[u]}
  BY <1>1, <1>2, BranchDeleted
<1>5. RepositoryOK' /\ CommitsGrow
  BY <1>1, <1>2, <1>3, <1>4, Bounds DEF RepositoryOK, CommitsGrow
<1> QED
  BY <1>2, <1>3, <1>4, <1>5, OthersKeep

LEMMA OpenByHandKeeps ==
  ASSUME PinInv, NEW t \in Tags, OpenByHand(t)
  PROVE  PinInv'
<1>1. /\ pulls' = Append(pulls, PullOf(t, ByHand))
      /\ UNCHANGED <<commits, head, branch, registry, run, calm>>
  BY DEF OpenByHand
<1>2. PullOf(t, ByHand) \in PullRequest /\ RepositoryOK
  BY DEF PullOf, PullRequest, PinInv
<1>3. /\ pulls' \in Seq(PullRequest) /\ Len(pulls') = Len(pulls) + 1
      /\ \A m \in 1..Len(pulls) : pulls'[m] = pulls[m]
  BY <1>1, <1>2, AppendIs DEF RepositoryOK
<1>4. PullsGrow /\ CommitsGrow
  BY <1>1, <1>2, <1>3, Bounds DEF PullsGrow, CommitsGrow
<1>5. RepositoryOK'
  BY <1>1, <1>2, <1>3 DEF RepositoryOK
<1> QED
  BY <1>1, <1>3, <1>4, <1>5, OthersKeep

LEMMA WorldKeeps ==
  ASSUME PinInv, CalmDown \/ (\E t \in Tags, d \in Published : MoveTag(t, d)) \/ UNCHANGED vars
  PROVE  PinInv'
<1>1. UNCHANGED <<commits, head, branch, pulls, run>>
  BY DEF CalmDown, MoveTag, remote, vars
<1>2. registry' \in [Tags -> Published] /\ calm' \in BOOLEAN
  BY DEF CalmDown, MoveTag, vars, PinInv, RepositoryOK
<1>3. RepositoryOK' /\ CommitsGrow /\ PullsGrow
  BY <1>1, <1>2, Bounds DEF PinInv, RepositoryOK, CommitsGrow, PullsGrow
<1> QED
  BY <1>1, <1>3, OthersKeep

-----------------------------------------------------------------------------
(* The theorems.                                                           *)

LEMMA InitPin ==
  Init => PinInv
<1> SUFFICES ASSUME Init PROVE PinInv
  OBVIOUS
<1>1. PICK files \in Files : commits = <<[parent |-> 0, files |-> files]>>
  BY PinAssumption DEF Init
<1>2. [parent |-> 0, files |-> files] \in Commit
  BY DEF Commit
<1>3. commits \in Seq(Commit) /\ Len(commits) = 1 /\ \A i \in DOMAIN commits : commits[i].parent < i
  BY <1>1, <1>2
<1>4. /\ head = 1 /\ branch = [t \in Tags |-> 0] /\ pulls = <<>>
      /\ registry \in [Tags -> Published] /\ run = [t \in Tags |-> Idle] /\ calm = FALSE
  BY DEF Init
<1>5. run \in [Tags -> RunState]
  BY <1>4, IdleIs
<1>6. RepositoryOK
  <2>1. head \in 1..Len(commits) /\ 0 \in 0..Len(commits)
    BY <1>3, <1>4
  <2>2. pulls \in Seq(PullRequest)
    BY <1>4
  <2> QED
    BY <1>3, <1>4, <1>5, <2>1, <2>2 DEF RepositoryOK
<1>7. ASSUME NEW t \in Tags PROVE RunOK(t)
  <2>1. run[t] = Idle /\ Len(pulls) = 0
    BY <1>4
  <2> QED
    BY <1>3, <2>1, IdleIs DEF RunOK, After, Built
<1> QED
  BY <1>6, <1>7 DEF PinInv

LEMMA NextPin ==
  PinInv /\ [Next]_vars => PinInv'
<1> SUFFICES ASSUME PinInv, [Next]_vars PROVE PinInv'
  OBVIOUS
<1>1. ASSUME NEW t \in Tags, Begin(t) \/ RunStep(t) PROVE PinInv'
  BY <1>1, BeginKeeps, ReadFileKeeps, ReadsKeep, WriteBranchKeeps, CreatePullKeeps DEF RunStep
<1>2. ASSUME NEW t \in Tags, Fail(t) \/ OpenByHand(t) PROVE PinInv'
  BY <1>2, FailsKeeps, OpenByHandKeeps DEF Fail
<1>3. ASSUME NEW i \in 1..2, Edit(i) PROVE PinInv'
  BY <1>3, EditKeeps
<1>4. ASSUME NEW n \in DOMAIN pulls, Merge(n) \/ Close(n) PROVE PinInv'
  BY <1>4, MergeKeeps, CloseKeeps
<1> QED
  BY <1>1, <1>2, <1>3, <1>4, WorldKeeps DEF Next

LEMMA PinInductive ==
  Spec => []PinInv
  BY InitPin, NextPin, PTL DEF Spec

\* Every variable keeps its type: the commit of a branch, and the pull request of a
\* run, are there when a run, or a merge, looks them up.
THEOREM PinTypeCorrect == Spec => []PinTypeOK
<1>1. PinInv => PinTypeOK
  <2> SUFFICES ASSUME PinInv PROVE PinTypeOK
    OBVIOUS
  <2>1. RepositoryOK /\ Len(commits) \in Nat /\ Len(pulls) \in Nat
    BY Bounds DEF PinInv
  <2>2. \A i \in DOMAIN commits : commits[i] \in [parent : 0..(i - 1), files : Files]
    <3> SUFFICES ASSUME NEW i \in 1..Len(commits)
                 PROVE  commits[i] \in [parent : 0..(i - 1), files : Files]
      BY <2>1, Bounds
    <3>1. commits[i] \in Commit /\ commits[i].parent < i
      BY <2>1, Bounds DEF RepositoryOK
    <3>2. commits[i].parent \in 0..(i - 1)
      BY <3>1 DEF Commit
    <3> QED
      BY <3>1, <3>2 DEF Commit
  <2>3. \A n \in DOMAIN pulls :
          pulls[n] \in [tag : Tags, body : Digests \cup {ByHand},
                        state : {"open", "merged", "closed"}]
    BY <2>1, Bounds DEF PullRequest
  <2>4. \A t \in Tags :
          run[t] \in [step : Steps, digest : Digests \cup {NoPin}, got : Seq(Content),
                      base : 0..Len(commits), ready : BOOLEAN, exists : BOOLEAN,
                      pull : 0..Len(pulls)]
    <3> SUFFICES ASSUME NEW t \in Tags
                 PROVE  run[t] \in [step : Steps, digest : Digests \cup {NoPin}, got : Seq(Content),
                                    base : 0..Len(commits), ready : BOOLEAN, exists : BOOLEAN,
                                    pull : 0..Len(pulls)]
      OBVIOUS
    <3>1. run[t] \in RunState
      BY RunIs
    <3>2. run[t].base \in 0..Len(commits) /\ run[t].pull \in 0..Len(pulls)
      BY <2>1, RunIs DEF RunOK
    <3> QED
      BY <3>1, <3>2 DEF RunState
  <2>5. registry \in [Tags -> Digests] /\ head \in DOMAIN commits
    BY <2>1, Bounds, PinAssumption DEF RepositoryOK
  <2> QED
    BY <2>1, <2>2, <2>3, <2>4, <2>5 DEF RepositoryOK, PinTypeOK
<1> QED
  BY <1>1, PinInductive, PTL

\* force_branch leaves the branch one commit on the base that the run has read, with
\* the digest in both files and nothing else changed, where the default branch did
\* not move between the reads: whoever commits, merges or deletes branches meanwhile.
THEOREM BranchAlwaysSitsOnItsBase == Spec => []BranchSitsOnItsBase
<1>1. PinInv => BranchSitsOnItsBase
  <2> SUFFICES ASSUME PinInv, NEW t \in Tags, run[t].step \in {"pull", "done"},
                      Consistent(t), branch[t] # 0
               PROVE  LET c == commits[branch[t]]
                      IN /\ c.parent = run[t].base
                         /\ \A i \in 1..2 : /\ c.files[i].pin = run[t].digest
                                            /\ c.files[i].text = commits[c.parent].files[i].text
    BY DEF BranchSitsOnItsBase
  <2>1. commits[branch[t]] = [parent |-> run[t].base, files |-> Desired(t)]
    BY RunIs DEF RunOK, Built
  <2>2. run[t].got = commits[run[t].base].files /\ run[t].base \in 1..Len(commits)
    BY RunIs, Bounds DEF Consistent, RunOK
  <2>3. \A i \in 1..2 : run[t].got[i] \in Content
    BY <2>2, RunIs, Bounds DEF Commit, Files
  <2>4. \A i \in 1..2 : /\ Desired(t)[i].pin = run[t].digest
                        /\ Desired(t)[i].text = run[t].got[i].text
    BY <2>3 DEF Desired, Rewrite, Content
  <2>5. commits[branch[t]].parent = run[t].base /\ commits[branch[t]].files = Desired(t)
    BY <2>1
  <2> QED
    BY <2>2, <2>4, <2>5
<1> QED
  BY <1>1, PinInductive, PTL

\* The pull request that a run found or opened tells, when the run has ended, the
\* digest that the run pins, whatever the runs for other tags do to theirs.
THEOREM HandledPullAlwaysTells == Spec => []HandledPullTellsThePin
<1>1. PinInv => HandledPullTellsThePin
  BY DEF PinInv, RunOK, HandledPullTellsThePin
<1> QED
  BY <1>1, PinInductive, PTL

-----------------------------------------------------------------------------
(* Runs in a calm world.                                                    *)

Ended(t) == run[t].step \in {"idle", "done"}

\* No run is under way, or one that was begun on what is there still: its digest
\* is that of the tag, the files are those of the head, and what it has found out
\* about the branch and the pull request is so.
Fresh(t) ==
  ~Ended(t) =>
    /\ run[t].digest = registry[t]
    /\ \A i \in DOMAIN run[t].got : run[t].got[i] = commits[head].files[i]
    /\ run[t].step \in After \ {"head"} => run[t].base = head
    /\ run[t].step = "pull" \/ (run[t].step = "find" /\ run[t].ready) => branch[t] # 0
    /\ run[t].step = "write" => run[t].exists = (branch[t] # 0)
    /\ run[t].pull # 0 => run[t].pull \in OpenPulls(t)

\* What the next step of a fresh run in a calm world does.
Repairs(t) ==
  /\ Fresh(t)'
  /\ Pinned(t) => Pinned(t)'
  /\ ~Ended(t) /\ Ended(t)' => Pinned(t)'

\* The head and the tag stand, and no open pull request is lost or loses its body.
Stands(t) ==
  /\ head' = head /\ registry' = registry /\ CommitsGrow
  /\ \A n \in OpenPulls(t) :
       /\ n \in OpenPulls(t)'
       /\ pulls[n].body = registry[t] => pulls'[n].body = registry[t]

LEMMA RemoteStands ==
  ASSUME PinInv, NEW t \in Tags, UNCHANGED <<remote, registry>>
  PROVE  /\ Stands(t) /\ branch' = branch /\ pulls' = pulls /\ commits' = commits
         /\ Pinned(t)' <=> Pinned(t)
         /\ OpenPulls(t)' = OpenPulls(t)
<1>1. UNCHANGED <<commits, head, branch, pulls, registry>>
  BY DEF remote
<1>2. CommitsGrow
  BY <1>1, Bounds DEF PinInv, CommitsGrow
<1>3. OpenPulls(t)' = OpenPulls(t)
  BY <1>1 DEF OpenPulls
<1>4. Pinned(t)' <=> Pinned(t)
  BY <1>1, <1>3 DEF Pinned
<1> QED
  BY <1>1, <1>2, <1>3, <1>4 DEF Stands

LEMMA HeadStands ==
  ASSUME PinInv, NEW t \in Tags, Stands(t)
  PROVE  /\ head \in 1..Len(commits) /\ commits'[head'] = commits[head]
         /\ commits[head].files \in Files
         /\ branch[t] # 0 => commits'[branch[t]] = commits[branch[t]]
<1>1. RepositoryOK /\ head \in 1..Len(commits) /\ commits[head] \in Commit
  BY Bounds DEF PinInv, RepositoryOK
<1>2. branch[t] # 0 => branch[t] \in 1..Len(commits)
  BY <1>1, Bounds DEF RepositoryOK
<1> QED
  BY <1>1, <1>2 DEF Stands, CommitsGrow, Commit

\* A pin that is there stays, where neither the run nor the branch is touched.
LEMMA OtherStays ==
  ASSUME PinInv, NEW t \in Tags, Fresh(t), Stands(t),
         run'[t] = run[t], branch'[t] = branch[t]
  PROVE  Repairs(t)
<1>1. /\ commits'[head'] = commits[head]
      /\ branch[t] # 0 => commits'[branch[t]] = commits[branch[t]]
  BY HeadStands
<1>2. (\A n \in OpenPulls(t) : n \in OpenPulls(t)') /\ registry' = registry /\ head' = head
  BY DEF Stands
<1>3. Pinned(t) => Pinned(t)'
  BY <1>1, <1>2 DEF Pinned, Stands
<1>4. Fresh(t)'
  BY <1>1, <1>2 DEF Fresh, Ended
<1> QED
  BY <1>3, <1>4 DEF Repairs, Ended

\* A fresh run that has read both files and the head is consistent, and the branch
\* that it has left, or found, pins what the tag names.
LEMMA FreshBuilds ==
  ASSUME PinInv, NEW t \in Tags, Fresh(t), run[t].step \in After \ {"head"}
  PROVE  /\ Consistent(t)
         /\ \A i \in 1..2 : Desired(t)[i].pin = registry[t]
         /\ run[t].step = "pull" =>
              \A i \in 1..2 : commits[branch[t]].files[i].pin = registry[t]
<1>1. /\ run[t].base = head /\ run[t].digest = registry[t] /\ ~Ended(t)
      /\ \A i \in DOMAIN run[t].got : run[t].got[i] = commits[head].files[i]
      /\ run[t].step = "pull" => branch[t] # 0
  BY DEF Fresh, Ended, After
<1>2. /\ run[t].got \in Seq(Content) /\ Len(run[t].got) = 2 /\ run[t].base # 0
      /\ Built(t)
  BY RunIs DEF RunOK, After
<1>3. head \in 1..Len(commits) /\ commits[head].files \in Files
  BY RunIs, Bounds DEF RepositoryOK, Commit
<1>4. run[t].got = commits[head].files
  <2>1. run[t].got \in [1..2 -> Content]
    BY <1>2, PairIs
  <2>2. commits[head].files \in [1..2 -> Content]
    BY <1>3 DEF Files
  <2> QED
    BY <1>1, <2>1, <2>2
<1>5. Consistent(t)
  BY <1>1, <1>2, <1>4 DEF Consistent
<1>6. \A i \in 1..2 : Desired(t)[i].pin = registry[t]
  <2>1. \A i \in 1..2 : run[t].got[i] \in Content
    BY <1>2
  <2> QED
    BY <1>1, <2>1 DEF Desired, Rewrite, Content
<1>7. run[t].step = "pull" => commits[branch[t]].files = Desired(t)
  BY <1>1, <1>2, <1>5 DEF Built
<1> QED
  BY <1>5, <1>6, <1>7

\* The two files, one after the other.
LEMMA ReadFileRepairs ==
  ASSUME PinInv, NEW t \in Tags, Fresh(t), ReadFile(t)
  PROVE  Repairs(t)
<1> DEFINE files == commits[head].files
           got == Append(run[t].got, files[Len(run[t].got) + 1])
<1>1. run[t].step = "files" /\ UNCHANGED <<remote, registry>> /\ UNCHANGED <<head, commits>>
  BY DEF ReadFile, remote
<1>2. /\ run[t].digest = registry[t] /\ ~Ended(t)
      /\ \A i \in DOMAIN run[t].got : run[t].got[i] = files[i]
  BY <1>1 DEF Fresh, Ended
<1>3. /\ run[t].got \in Seq(Content) /\ Len(run[t].got) \in Nat /\ run[t].pull = 0
      /\ Len(run[t].got) < 2
  BY <1>1, RunIs DEF RunOK
<1>4. files[Len(run[t].got) + 1] \in Content
  <2>1. files \in Files
    BY RunIs, Bounds DEF RepositoryOK, Commit
  <2> QED
    BY <1>3, <2>1 DEF Files
<1>5. /\ got \in Seq(Content) /\ Len(got) = Len(run[t].got) + 1
      /\ \A i \in DOMAIN got : got[i] = files[i]
  <2> HIDE DEF files
  <2>1. /\ Len(got) = Len(run[t].got) + 1 /\ got \in Seq(Content)
        /\ DOMAIN run[t].got = 1..Len(run[t].got)
        /\ \A i \in 1..Len(run[t].got) : got[i] = run[t].got[i]
        /\ got[Len(run[t].got) + 1] = files[Len(run[t].got) + 1]
    BY <1>3, <1>4, AppendIs
  <2> HIDE DEF got
  <2>2. DOMAIN got = 1..(Len(run[t].got) + 1)
    BY <2>1
  <2>3. \A i \in 1..(Len(run[t].got) + 1) : i \in 1..Len(run[t].got) \/ i = Len(run[t].got) + 1
    BY <1>3
  <2> QED
    BY <1>2, <2>1, <2>2, <2>3
<1>6. /\ Stands(t) /\ (Pinned(t)' <=> Pinned(t)) /\ OpenPulls(t)' = OpenPulls(t)
      /\ branch' = branch
  BY <1>1, RemoteStands
<1>7. CASE Len(got) < 2 /\ run' = [run EXCEPT ![t].got = got]
  <2> HIDE DEF got
  <2>1. run'[t].got = got /\ run'[t].step = "files" /\ run'[t].digest = registry'[t]
        /\ run'[t].pull = 0
    <3>1. run[t] \in RunState /\ t \in DOMAIN run
      BY RunIs DEF RepositoryOK
    <3>2. registry' = registry
      BY <1>1
    <3> QED
      BY <1>1, <1>2, <1>3, <1>7, <3>1, <3>2 DEF RunState
  <2>2. Fresh(t)'
    BY <1>1, <1>5, <2>1 DEF Fresh, After
  <2> QED
    BY <1>6, <2>1, <2>2 DEF Repairs, Ended
<1>8. CASE /\ Len(got) = 2 /\ \A i \in DOMAIN got : DigestCurrent(got[i], run[t].digest)
           /\ run' = [run EXCEPT ![t].got = got, ![t].step = "done"]
  <2>1. run'[t].step = "done"
    BY <1>8, RunIs DEF RepositoryOK, RunState
  <2> HIDE DEF got
  <2>2. DOMAIN got = 1..2
    BY <1>5, <1>8, LenProperties
  <2>3. Pinned(t)
    BY <1>2, <1>5, <1>8, <2>2 DEF Pinned, DigestCurrent
  <2> QED
    BY <1>6, <2>1, <2>3 DEF Repairs, Fresh, Ended
<1>9. CASE Fails(t) /\ Len(got) = 2 /\ ~(\A i \in DOMAIN got : got[i].pin # NoPin)
  <2>1. run'[t].step = "idle"
    BY <1>9, RunIs, IdleIs DEF Fails
  <2> HIDE DEF got
  <2>2. DOMAIN got = 1..2
    BY <1>5, <1>9, LenProperties
  <2>3. Pinned(t)
    BY <1>5, <1>9, <2>2 DEF Pinned
  <2> QED
    BY <1>6, <2>1, <2>3 DEF Repairs, Fresh, Ended
<1>10. CASE Len(got) = 2 /\ run' = [run EXCEPT ![t].got = got, ![t].step = "head"]
  <2> HIDE DEF got
  <2>1. run'[t].got = got /\ run'[t].step = "head" /\ run'[t].digest = registry'[t]
        /\ run'[t].pull = 0
    <3>1. run[t] \in RunState /\ t \in DOMAIN run
      BY RunIs DEF RepositoryOK
    <3>2. registry' = registry
      BY <1>1
    <3> QED
      BY <1>1, <1>2, <1>3, <1>10, <3>1, <3>2 DEF RunState
  <2>2. Fresh(t)'
    BY <1>1, <1>5, <2>1 DEF Fresh, After
  <2> QED
    BY <1>6, <2>1, <2>2 DEF Repairs, Ended
<1> QED
  BY <1>7, <1>8, <1>9, <1>10 DEF ReadFile

\* The calls that read.
LEMMA ReadsRepair ==
  ASSUME PinInv, NEW t \in Tags, Fresh(t),
         ReadHead(t) \/ ReadBranch(t) \/ FindPull(t) \/ LookBranch(t)
  PROVE  Repairs(t)
<1>1. UNCHANGED <<remote, registry>> /\ run[t].step \in {"head", "branch", "find", "look"}
  BY DEF ReadHead, ReadBranch, FindPull, LookBranch
<1>2. /\ Stands(t) /\ (Pinned(t)' <=> Pinned(t)) /\ OpenPulls(t)' = OpenPulls(t)
      /\ UNCHANGED <<commits, head, branch, registry>>
  BY <1>1, RemoteStands DEF Stands
<1>3. /\ run[t].digest = registry[t] /\ ~Ended(t)
      /\ \A i \in DOMAIN run[t].got : run[t].got[i] = commits[head].files[i]
      /\ run[t].step # "head" => run[t].base = head
      /\ run[t].step = "find" /\ run[t].ready => branch[t] # 0
      /\ run[t].pull # 0 => run[t].pull \in OpenPulls(t)
  BY <1>1 DEF Fresh, Ended, After
<1>4. run[t] \in RunState /\ t \in DOMAIN run
  BY RunIs DEF RepositoryOK
<1>5. CASE ReadHead(t)
  <2>1. /\ run'[t].step = "branch" /\ run'[t].base = head /\ run'[t].pull = run[t].pull
        /\ run'[t].digest = run[t].digest /\ run'[t].got = run[t].got
    BY <1>4, <1>5 DEF ReadHead, RunState
  <2> QED
    BY <1>2, <1>3, <2>1 DEF Repairs, Fresh, Ended
<1>6. CASE ReadBranch(t)
  <2>1. /\ run'[t].step = "find" /\ run'[t].base = run[t].base /\ run'[t].pull = run[t].pull
        /\ run'[t].ready = Ready(t) /\ run[t].step = "branch"
        /\ run'[t].digest = run[t].digest /\ run'[t].got = run[t].got
    BY <1>4, <1>6 DEF ReadBranch, RunState
  <2>2. run'[t].ready => branch'[t] # 0
    BY <1>2, <2>1 DEF Ready
  <2> QED
    BY <1>2, <1>3, <2>1, <2>2 DEF Repairs, Fresh, Ended
<1>7. CASE FindPull(t)
  <2>1. run[t].step = "find"
    BY <1>7 DEF FindPull
  <2>2. /\ run'[t].step = NextStep(t) /\ run'[t].base = run[t].base
        /\ run'[t].digest = run[t].digest /\ run'[t].got = run[t].got
        /\ run'[t].pull = run[t].pull \/ run'[t].pull \in OpenPulls(t)
    <3>1. CASE Moves(t, NextStep(t))
      BY <1>4, <3>1 DEF Moves, RunState
    <3>2. ASSUME NEW n \in OpenPulls(t),
                 run' = [run EXCEPT ![t].pull = n, ![t].step = NextStep(t)]
          PROVE  /\ run'[t].step = NextStep(t) /\ run'[t].base = run[t].base
                 /\ run'[t].digest = run[t].digest /\ run'[t].got = run[t].got
                 /\ run'[t].pull = n
      BY <1>4, <3>2 DEF RunState
    <3> QED
      BY <1>7, <3>1, <3>2 DEF FindPull
  <2>3. (run'[t].step = "pull" /\ branch[t] # 0) \/ run'[t].step = "look"
    BY <1>3, <2>1, <2>2 DEF NextStep
  <2> QED
    BY <1>2, <1>3, <2>1, <2>2, <2>3 DEF Repairs, Fresh, Ended
<1>8. CASE LookBranch(t)
  <2>1. /\ run'[t].step = "write" /\ run'[t].base = run[t].base /\ run'[t].pull = run[t].pull
        /\ run'[t].exists = (branch[t] # 0) /\ run[t].step = "look"
        /\ run'[t].digest = run[t].digest /\ run'[t].got = run[t].got
    BY <1>4, <1>8 DEF LookBranch, RunState
  <2> QED
    BY <1>2, <1>3, <2>1 DEF Repairs, Fresh, Ended
<1> QED
  BY <1>5, <1>6, <1>7, <1>8

\* The branch is where the run last saw it, and is written.
LEMMA WriteRepairs ==
  ASSUME PinInv, NEW t \in Tags, Fresh(t), WriteBranch(t)
  PROVE  Repairs(t)
<1> DEFINE c == [parent |-> Parent(t), files |-> Tree(t)]
<1>1. run[t].step = "write" /\ registry' = registry
  BY DEF WriteBranch
<1>2. /\ run[t].digest = registry[t] /\ run[t].base = head /\ ~Ended(t)
      /\ \A i \in DOMAIN run[t].got : run[t].got[i] = commits[head].files[i]
      /\ run[t].exists = (branch[t] # 0)
      /\ run[t].pull # 0 => run[t].pull \in OpenPulls(t)
  BY <1>1 DEF Fresh, Ended, After
<1>3. /\ Record(c) /\ branch' = [branch EXCEPT ![t] = CommitId(c)]
      /\ Moves(t, "pull") /\ head' = head /\ pulls' = pulls
  BY <1>2 DEF WriteBranch
<1>4. /\ c \in Commit /\ c.parent <= Len(commits) /\ c.files = Desired(t)
      /\ \A i \in 1..2 : Desired(t)[i].pin = registry[t]
  <2>1. run[t].step \in After \ {"head"}
    BY <1>1 DEF After
  <2>2. Consistent(t) /\ \A i \in 1..2 : Desired(t)[i].pin = registry[t]
    BY <2>1, FreshBuilds
  <2> QED
    BY <1>1, <2>2, TreeIs, RunIs, Bounds
<1> HIDE DEF c
<1>5. CommitsGrow /\ CommitId(c) \in 1..Len(commits') /\ commits'[CommitId(c)] = c
  BY <1>3, <1>4, RunIs, RecordIs
<1>6. branch'[t] = CommitId(c) /\ branch'[t] # 0
  BY <1>3, <1>5, RunIs DEF RepositoryOK
<1>7. OpenPulls(t)' = OpenPulls(t)
  BY <1>3 DEF OpenPulls
<1>8. Stands(t)
  BY <1>1, <1>3, <1>5, <1>7 DEF Stands
<1>9. commits'[head'] = commits[head]
  BY <1>8, HeadStands
<1>10. Pinned(t) => Pinned(t)'
  <2>1. \A i \in 1..2 : commits'[branch'[t]].files[i].pin = registry'[t]
    BY <1>1, <1>4, <1>5, <1>6
  <2> QED
    BY <1>1, <1>3, <1>6, <1>7, <1>9, <2>1 DEF Pinned, DigestCurrent
<1>11. /\ run'[t].step = "pull" /\ run'[t].digest = run[t].digest /\ run'[t].base = run[t].base
       /\ run'[t].got = run[t].got /\ run'[t].pull = run[t].pull
  BY <1>3, RunIs DEF RepositoryOK, Moves, RunState
<1>12. Fresh(t)'
  BY <1>1, <1>2, <1>3, <1>6, <1>7, <1>9, <1>11 DEF Fresh
<1> QED
  BY <1>10, <1>11, <1>12 DEF Repairs, Ended

\* The last call: the branch pins the digest, and its pull request tells it.
LEMMA PullRepairs ==
  ASSUME PinInv, NEW t \in Tags, Fresh(t), CreatePull(t) \/ UpdatePull(t)
  PROVE  Repairs(t)
<1>1. run[t].step = "pull" /\ UNCHANGED <<registry, calm>>
  BY DEF CreatePull, UpdatePull
<1>2. /\ branch[t] # 0 /\ run[t].digest = registry[t]
      /\ run[t].pull # 0 => run[t].pull \in OpenPulls(t)
  BY <1>1 DEF Fresh, Ended, After
<1>3. \A i \in 1..2 : commits[branch[t]].files[i].pin = registry[t]
  <2>1. run[t].step \in After \ {"head"}
    BY <1>1 DEF After
  <2> QED
    BY <1>1, <2>1, FreshBuilds
<1>4. /\ UNCHANGED <<commits, head, branch>> /\ run'[t].step = "done"
      /\ \/ pulls' = Append(pulls, PullOf(t, run[t].digest))
         \/ \E n \in OpenPulls(t) : pulls' = [pulls EXCEPT ![n].body = run[t].digest]
  <2>1. run[t] \in RunState /\ t \in DOMAIN run
    BY RunIs DEF RepositoryOK
  <2>2. ASSUME NEW n, run' = [run EXCEPT ![t].pull = n, ![t].step = "done"]
        PROVE  run'[t].step = "done"
    BY <2>1, <2>2 DEF RunState
  <2>3. CASE UpdatePull(t)
    <3>1. run'[t].step = "done"
      BY <2>1, <2>3 DEF UpdatePull, Moves, RunState
    <3> QED
      BY <1>2, <2>3, <3>1 DEF UpdatePull, BodyFor
  <2>4. CASE CreatePull(t)
    BY <1>2, <2>2, <2>4 DEF CreatePull
  <2> QED
    BY <2>3, <2>4
<1>5. \E n \in OpenPulls(t)' : pulls'[n].body = registry[t]
  <2>1. pulls \in Seq(PullRequest) /\ Len(pulls) \in Nat /\ DOMAIN pulls = 1..Len(pulls)
        /\ \A n \in 1..Len(pulls) : pulls[n] \in PullRequest
    BY RunIs, Bounds DEF RepositoryOK
  <2>2. CASE pulls' = Append(pulls, PullOf(t, run[t].digest))
    <3>1. Len(pulls) + 1 \in DOMAIN pulls' /\ pulls'[Len(pulls) + 1] = PullOf(t, run[t].digest)
      BY <2>1, <2>2
    <3> QED
      BY <1>2, <3>1 DEF OpenPulls, PullOf
  <2>3. ASSUME NEW n \in OpenPulls(t), pulls' = [pulls EXCEPT ![n].body = run[t].digest]
        PROVE  n \in OpenPulls(t)' /\ pulls'[n].body = registry[t]
    <3>1. n \in DOMAIN pulls /\ pulls[n].tag = t /\ pulls[n].state = "open"
          /\ pulls[n] \in PullRequest
      BY <2>1 DEF OpenPulls
    <3>2. n \in DOMAIN pulls' /\ pulls'[n] = [pulls[n] EXCEPT !.body = run[t].digest]
      BY <2>3, <3>1
    <3>3. pulls'[n].tag = t /\ pulls'[n].state = "open" /\ pulls'[n].body = registry[t]
      BY <1>2, <3>1, <3>2 DEF PullRequest
    <3> QED
      BY <3>2, <3>3 DEF OpenPulls
  <2> QED
    BY <1>4, <2>2, <2>3
<1>6. Pinned(t)'
  BY <1>1, <1>2, <1>3, <1>4, <1>5 DEF Pinned, DigestCurrent
<1> QED
  BY <1>4, <1>6 DEF Repairs, Fresh, Ended

\* A run for another tag leaves the branch and the pull requests of this one alone.
LEMMA OtherTag ==
  ASSUME PinInv, NEW t \in Tags, NEW u \in Tags, u # t, Begin(u) \/ RunStep(u)
  PROVE  Stands(t) /\ run'[t] = run[t] /\ branch'[t] = branch[t]
<1>1. run'[t] = run[t]
  BY RunIs
  DEF RepositoryOK, Begin, RunStep, ReadFile, Fails, ReadHead, ReadBranch, FindPull, Moves,
      LookBranch, WriteBranch, CreatePull, UpdatePull
<1>2. CASE Begin(u) \/ ReadFile(u) \/ ReadHead(u) \/ ReadBranch(u) \/ FindPull(u) \/ LookBranch(u)
  <2>1. UNCHANGED <<remote, registry>>
    BY <1>2 DEF Begin, ReadFile, ReadHead, ReadBranch, FindPull, LookBranch
  <2> QED
    BY <1>1, <2>1, RemoteStands
<1>3. CASE WriteBranch(u)
  <2>1. CASE UNCHANGED remote
    BY <1>1, <1>3, <2>1, RemoteStands DEF WriteBranch
  <2>2. CASE /\ Record([parent |-> Parent(u), files |-> Tree(u)])
             /\ branch' = [branch EXCEPT ![u] = CommitId([parent |-> Parent(u), files |-> Tree(u)])]
             /\ UNCHANGED <<head, pulls>>
    <3> DEFINE c == [parent |-> Parent(u), files |-> Tree(u)]
    <3>1. run[u].step = "write" /\ registry' = registry
      BY <1>3 DEF WriteBranch
    <3>2. c \in Commit /\ c.parent <= Len(commits)
      BY <3>1, TreeIs, RunIs, Bounds
    <3> HIDE DEF c
    <3>3. CommitsGrow
      BY <2>2, <3>2, RunIs, RecordIs DEF c
    <3>4. branch'[t] = branch[t] /\ OpenPulls(t)' = OpenPulls(t)
      BY <2>2, RunIs DEF RepositoryOK, OpenPulls
    <3> QED
      BY <1>1, <2>2, <3>1, <3>3, <3>4 DEF Stands
  <2> QED
    BY <1>3, <2>1, <2>2 DEF WriteBranch
<1>4. CASE CreatePull(u) \/ UpdatePull(u)
  <2>1. pulls \in Seq(PullRequest) /\ Len(pulls) \in Nat /\ DOMAIN pulls = 1..Len(pulls)
        /\ \A n \in 1..Len(pulls) : pulls[n] \in PullRequest
    BY RunIs, Bounds DEF RepositoryOK
  <2>2. registry' = registry
    BY <1>4 DEF CreatePull, UpdatePull
  <2>3. CASE UNCHANGED remote
    BY <1>1, <2>2, <2>3, RemoteStands
  <2>4. CASE /\ UNCHANGED <<commits, head, branch>>
             /\ pulls' = Append(pulls, PullOf(u, run[u].digest))
    <3>1. \A n \in 1..Len(pulls) : n \in DOMAIN pulls' /\ pulls'[n] = pulls[n]
      BY <2>1, <2>4
    <3>2. CommitsGrow
      BY <2>4, RunIs, Bounds DEF CommitsGrow
    <3> QED
      BY <1>1, <2>1, <2>2, <2>4, <3>1, <3>2 DEF Stands, OpenPulls
  <2>5. ASSUME NEW n \in 1..Len(pulls), pulls[n].tag = u, UNCHANGED <<commits, head, branch>>,
               pulls' = [pulls EXCEPT ![n].body = run[u].digest]
        PROVE  Stands(t) /\ branch'[t] = branch[t]
    <3>1. /\ DOMAIN pulls' = DOMAIN pulls
          /\ \A m \in DOMAIN pulls : m # n => pulls'[m] = pulls[m]
      BY <2>1, <2>5
    <3>2. \A m \in OpenPulls(t) : m \in DOMAIN pulls /\ m # n
      BY <2>5 DEF OpenPulls
    <3>3. CommitsGrow
      BY <2>5, RunIs, Bounds DEF CommitsGrow
    <3> QED
      BY <2>2, <2>5, <3>1, <3>2, <3>3 DEF Stands, OpenPulls
  <2>6. CASE UpdatePull(u)
    <3>1. run[u].pull \in 1..Len(pulls) /\ pulls[run[u].pull].tag = u
      BY <2>1, <2>6, RunIs DEF UpdatePull, RunOK
    <3> QED
      BY <1>1, <2>5, <2>6, <3>1 DEF UpdatePull, BodyFor
  <2>7. CASE CreatePull(u)
    <3>1. \A n \in OpenPulls(u) : n \in 1..Len(pulls) /\ pulls[n].tag = u
      BY <2>1 DEF OpenPulls
    <3> QED
      BY <1>1, <2>3, <2>4, <2>5, <2>7, <3>1 DEF CreatePull
  <2> QED
    BY <1>4, <2>6, <2>7
<1> QED
  BY <1>2, <1>3, <1>4 DEF RunStep

\* In a calm world a run that was begun in it, or later than what went on before,
\* never undoes a pin, and ends only where the tag is pinned, or a pull request is
\* open that pins it, or there is nothing to pin; and so does every run after it.
CalmRunsRepair == [][\A t \in Tags : calm /\ Fresh(t) => Repairs(t)]_vars

\* What RerunsRepair rests on, for any number of tags, commits and pull requests:
\* once the runs of a stormier time have ended, no run fails and none does harm.
THEOREM CalmRunsAlwaysRepair == Spec => CalmRunsRepair
<1>1. ASSUME PinInv, Next, NEW t \in Tags, calm, Fresh(t)
      PROVE  Repairs(t)
  <2>1. ASSUME NEW u \in Tags, Begin(u) \/ RunStep(u), u # t
        PROVE  Repairs(t)
    BY <1>1, <2>1, OtherTag, OtherStays
  <2>2. CASE Begin(t)
    <3>1. UNCHANGED <<remote, registry>> /\ Ended(t)
      BY <2>2 DEF Begin, Ended
    <3>2. /\ run'[t].step = "files" /\ run'[t].digest = registry[t]
          /\ run'[t].got = <<>> /\ run'[t].pull = 0
      <4> DEFINE r == [Idle EXCEPT !.step = "files", !.digest = registry[t]]
      <4>1. r.step = "files" /\ r.digest = registry[t] /\ r.got = <<>> /\ r.pull = 0
        BY IdleIs DEF RunState
      <4>2. run'[t] = r
        BY <1>1, <2>2, RunIs DEF Begin
      <4> QED
        BY <4>1, <4>2
    <3>3. Fresh(t)'
      BY <3>1, <3>2 DEF Fresh, After
    <3> QED
      BY <1>1, <3>1, <3>3, RemoteStands DEF Repairs
  <2>3. CASE RunStep(t)
    BY <1>1, <2>3, ReadFileRepairs, ReadsRepair, WriteRepairs, PullRepairs DEF RunStep
  <2> QED
    BY <1>1, <2>1, <2>2, <2>3
    DEF Next, Fail, OpenByHand, MoveTag, Edit, Merge, Close, CalmDown
<1>2. PinInv /\ [Next]_vars => [\A t \in Tags : calm /\ Fresh(t) => Repairs(t)]_vars
  BY <1>1
<1> QED
  BY <1>2, PinInductive, PTL DEF Spec, CalmRunsRepair
=============================================================================
