-------------------------------- MODULE StepRun --------------------------------
(***************************************************************************)
(* One step of a sequence on the operator's checkout, in each of its       *)
(* kinds.  A plain step grows a single Sprout that merges its own commit;  *)
(* a step on its own branch (phloem) and a parallel step merge the         *)
(* branches of their Sprouts into the checkout; a selection grafts one     *)
(* Sprout of many: the first that succeeds (phenotype) or the best of all  *)
(* (genetic).  A parallel step ends with a plain Sprout, the consensus.    *)
(***************************************************************************)
EXTENDS Substrate

CONSTANTS
    Lone,       \* the Sprout of a plain step, and of the consensus
    Elsewhere,  \* a commit that is on the protected branch already
    Past,       \* a commit that an earlier attempt found unfit
    MaxFaults   \* bound: commands that fail

StepRunAssumption == {Lone, Elsewhere, Past} \subseteq Run /\ MaxFaults \in Nat

Crew == Run \ {Lone, Elsewhere, Past}
Kind == {"plain", "phloem", "phenotype", "genetic", "parallel"}
Selective(k) == k \in {"phenotype", "genetic"}

VARIABLES host, step, sprout, written, faults

vars == <<host, step, sprout, written, faults>>

StepState == [kind : Kind,
              phase : {"idle", "growing", "stashing", "merging", "unstashing",
                       "consensus", "waiting", "over"},
              crew : SUBSET Run,
              outer : BOOLEAN, inner : BOOLEAN,     \* stashes it pushed
              todo : SUBSET Run,    \* branches still to be grafted
              error : BOOLEAN,
              lost : BOOLEAN,       \* a stash was not restored
              jammed : BOOLEAN]     \* the checkout is in an unfinished merge

Sprouting == [phase : {"none", "planted", "growing", "merging", "restoring",
                       "clearing", "ended", "done"},
              stashed : BOOLEAN, detached : BOOLEAN,
              committed : BOOLEAN, failed : BOOLEAN]

Unsown == [phase |-> "none", stashed |-> FALSE, detached |-> FALSE,
           committed |-> FALSE, failed |-> FALSE]
Unrooted(k) == [kind |-> k, phase |-> "idle", crew |-> {}, outer |-> FALSE,
                inner |-> FALSE, todo |-> {}, error |-> FALSE,
                lost |-> FALSE, jammed |-> FALSE]

\* Branches of an earlier attempt may be left, behind the branch by now or with
\* what that attempt committed on them.
Init ==
    /\ \E stale \in SUBSET Crew : \E left \in [stale -> {{}, {Elsewhere, Past}}] :
         host = [Pristine EXCEPT !.exists = @ \cup stale,
                                 !.tip = [b \in Branch |-> IF b = Main THEN {Elsewhere}
                                                      ELSE IF b \in stale THEN left[b] ELSE {}]]
    /\ \E k \in Kind : step = Unrooted(k)
    /\ sprout = [r \in Run |-> Unsown]
    /\ written = {} /\ faults = 0

Sound == UNCHANGED <<written, faults>>
Faulty == faults < MaxFaults /\ faults' = faults + 1 /\ UNCHANGED written

StepTo(s, h) == step' = s /\ host' = h /\ UNCHANGED sprout
SproutTo(r, s, h) == sprout' = [sprout EXCEPT ![r] = s] /\ host' = h /\ UNCHANGED step
At(s, phase) == [s EXCEPT !.phase = phase]
Failed(s, phase) == [s EXCEPT !.phase = phase, !.error = TRUE]

----------------------------------------------------------------------------
(* The Sprouts of a crew: a worktree on a branch of their own, a turn, a   *)
(* commit on that branch, no merge.                                        *)

\* A selection stashes once for all its Sprouts.
Begin ==
    /\ step.phase = "idle"
    /\ \E crew \in CASE step.kind = "plain" -> {{Lone}}
                     [] step.kind = "phloem" -> {{r} : r \in Crew}
                     [] OTHER -> {Crew} :
         LET s == [At(step, "growing") EXCEPT !.crew = crew] IN
         IF Selective(step.kind) /\ host.dirty # {}
         THEN \/ StepTo([s EXCEPT !.outer = TRUE], Stashed(host, Lone)) /\ Sound
              \/ StepTo(Failed(step, "over"), host) /\ Faulty
         ELSE StepTo(s, host) /\ Sound

\* `git worktree add` takes the branch as it is, or makes it from HEAD.
Branched(h, r) == IF r \in h.exists THEN h
                  ELSE [h EXCEPT !.exists = @ \cup {r}, !.tip[r] = h.tip[h.head]]

Plant(r) ==
    /\ r \in step.crew /\ sprout[r].phase = "none"
    /\ LET up == IF r = Lone THEN "planted" ELSE "growing" IN
       \/ SproutTo(r, At(sprout[r], up), Planted(Branched(host, r), r)) /\ Sound
       \/ SproutTo(r, [At(sprout[r], "done") EXCEPT !.failed = TRUE], host) /\ Faulty

\* The turn wrote, left nothing to commit, or failed; a selection also fails a
\* Sprout whose commit does not pass the fitness test.
TurnEnds(r) ==
    /\ r # Lone /\ sprout[r].phase = "growing"
    /\ \E wrote, failed \in BOOLEAN :
         /\ wrote /\ failed => Selective(step.kind)
         /\ SproutTo(r, [At(sprout[r], "ended") EXCEPT !.committed = wrote, !.failed = failed],
                     IF wrote THEN [host EXCEPT !.tip[r] = @ \cup {r}] ELSE host)
    /\ Sound

\* The worktree goes when the Sprout's goroutine returns; a step on its own
\* branch keeps it until it has merged.
Uproot(r) ==
    /\ r # Lone /\ sprout[r].phase = "ended"
    /\ step.kind = "phloem" => step.phase = "waiting"
    /\ SproutTo(r, At(sprout[r], "done"), Uprooted(host, r)) /\ Sound

----------------------------------------------------------------------------
(* What the step makes of them.                                            *)

Reported(r) == sprout[r].phase \in {"ended", "done"}
Fit == {r \in step.crew : Reported(r) /\ ~sprout[r].failed}
All(phases) == \A r \in step.crew : sprout[r].phase \in phases

ChosenUnfit ==
    CASE step.kind \in {"phloem", "phenotype"} -> {{r} : r \in {q \in step.crew : Reported(q)}}
      [] step.kind = "genetic" /\ All({"done"}) -> {{r} : r \in Fit}
      [] step.kind = "parallel" /\ All({"done"}) /\ Fit # {} -> {Fit}
      [] OTHER -> {}

\* The first success ends a phenotype selection, and the others are cancelled;
\* the rest wait for every worktree to be gone.  (Which of two reports is read
\* first is left open.)
Chosen ==
    CASE step.kind \in {"phloem", "phenotype"} -> {{r} : r \in Fit}
      [] step.kind = "genetic" /\ All({"done"}) -> {{r} : r \in Fit}
      [] step.kind = "parallel" /\ All({"done"}) /\ Fit # {} -> {Fit}
      [] OTHER -> {}

\* A genetic selection drops the branches of the others, those it can.
Pruned(h, losers) == [h EXCEPT !.exists = @ \ losers]

Choose ==
    /\ step.phase = "growing" /\ step.kind # "plain"
    /\ \/ \E c \in Chosen : StepTo([At(step, "stashing") EXCEPT !.todo = c], host)
       \/ Fit = {} /\ All({"ended", "done"}) /\ (step.kind \in {"genetic", "parallel"} => All({"done"}))
          /\ StepTo(Failed(step, "waiting"),
                    IF step.kind = "genetic" THEN Pruned(host, step.crew) ELSE host)
    /\ Sound

\* A failed graft fails the step, except that a parallel step goes on.
MissedUnseen(s) == s
Missed(s) == [s EXCEPT !.error = @ \/ step.kind # "parallel"]
MissedUnrestored(s) == Missed(At(s, "waiting"))
MissedMerge(s) == Missed(At(s, "unstashing"))

StashForMerge ==
    /\ step.phase = "stashing"
    /\ IF host.dirty # {}
       THEN \/ StepTo([At(step, "merging") EXCEPT !.inner = TRUE], Stashed(host, Lone)) /\ Sound
            \/ \E r \in step.todo :
                 StepTo([Missed(At(step, "unstashing")) EXCEPT !.todo = @ \ {r}], host) /\ Faulty
       ELSE StepTo(At(step, "merging"), host) /\ Sound

\* `--ff-only` for a selection; `--no-ff` otherwise, aborted when it fails.
Within(h, c) == c \subseteq h.tip[h.head]
Merges(h, c) ==
    IF Within(h, c) THEN {h}
    ELSE IF ~Selective(step.kind) /\ ~Obstructed(h, c) THEN {Merged(h, c)}
    ELSE IF CanForward(h, c) THEN {Forwarded(h, c)} ELSE {}

Merge ==
    /\ step.phase = "merging"
    /\ \E r \in step.todo :
         LET s == [At(step, "unstashing") EXCEPT !.todo = @ \ {r}]
             kept(h) == IF step.kind = "genetic" THEN Pruned(h, step.crew \ {r}) ELSE h
             after == {kept(h) : h \in Merges(host, host.tip[r])}
         IN  \/ \E h \in after : StepTo(s, h) /\ Sound
             \/ after = {} /\ StepTo(MissedMerge(s), host) /\ Sound
             \/ StepTo(MissedMerge(s), host) /\ Faulty

AfterGraft(s) == IF s.todo # {} THEN At(s, "stashing")
            ELSE IF s.kind = "parallel" THEN [At(s, "consensus") EXCEPT !.crew = @ \cup {Lone}]
            ELSE At(s, "waiting")

\* A pop that lays down all it can and whose recovery drops the entry, with what
\* it could not, is a success (Popped); one that fails keeps the entry, and may
\* have laid it down before.  The pop, the status and the drop are one step.
Unpopped == {host, Laid(host)}
Unstash ==
    LET s == [step EXCEPT !.inner = FALSE] IN
    /\ step.phase = "unstashing"
    /\ \/ ~step.inner /\ StepTo(AfterGraft(s), host) /\ Sound
       \/ step.inner /\ StepTo(AfterGraft(s), Popped(host)) /\ Sound
       \/ step.inner /\ Faulty
          /\ \E h \in Unpopped : StepTo([Missed(AfterGraft(s)) EXCEPT !.lost = TRUE], h)

\* The step returns when its Sprouts are gone, and the stash it pushed first
\* comes back last.
Conclude ==
    /\ step.phase = "waiting" /\ All({"done"})
    /\ \/ ~step.outer /\ StepTo(At(step, "over"), host) /\ Sound
       \/ step.outer /\ StepTo(At(step, "over"), Popped(host)) /\ Sound
       \/ step.outer /\ Faulty
          /\ \E h \in Unpopped : StepTo([Failed(step, "over") EXCEPT !.lost = TRUE], h)

----------------------------------------------------------------------------
(* The lone Sprout: stash, grow, commit, merge, restore, remove.           *)

LoneTo(phase, h) == SproutTo(Lone, At(sprout[Lone], phase), h)
LoneFails(phase, h) == SproutTo(Lone, [At(sprout[Lone], phase) EXCEPT !.failed = TRUE], h)

LoneStash ==
    /\ sprout[Lone].phase = "planted"
    /\ IF host.dirty # {}
       THEN \/ SproutTo(Lone, [At(sprout[Lone], "growing") EXCEPT !.stashed = TRUE],
                        Stashed(host, Lone)) /\ Sound
            \/ LoneFails("clearing", host) /\ Faulty
       ELSE \/ LoneTo("growing", host) /\ Sound
            \/ LoneFails("clearing", host) /\ Faulty

\* The growth budget ends the wait, not the work: the step is reported done,
\* with an empty response, and the run keeps its worktree and its stash.
DetachedCleared == Uprooted(host, Lone)
DetachedHost == host
Detach ==
    /\ sprout[Lone].phase = "growing" /\ ~sprout[Lone].detached
    /\ sprout' = [sprout EXCEPT ![Lone].detached = TRUE]
    /\ step' = At(step, "over") /\ host' = DetachedHost /\ Sound

LoneTurnEnds ==
    /\ sprout[Lone].phase = "growing"
    /\ \/ SproutTo(Lone, [At(sprout[Lone], "merging") EXCEPT !.committed = TRUE],
                   [host EXCEPT !.tip[Lone] = @ \cup {Lone}]) /\ Sound
       \/ LoneTo("restoring", host) /\ Sound
       \/ LoneFails("restoring", host) /\ Sound

\* A merge that fails is not aborted here.
LoneMerge ==
    /\ sprout[Lone].phase = "merging"
    /\ IF Obstructed(host, host.tip[Lone]) THEN LoneFails("restoring", host) /\ Sound
       ELSE \/ LoneTo("restoring", Merged(host, host.tip[Lone])) /\ Sound
            \/ /\ sprout' = [sprout EXCEPT ![Lone] = [At(@, "restoring") EXCEPT !.failed = TRUE]]
               /\ \E jam \in BOOLEAN : step' = [step EXCEPT !.jammed = jam]
               /\ UNCHANGED host /\ Faulty

\* Nothing can be popped onto an unfinished merge.
LoneRestore ==
    LET lost(h) == /\ sprout' = [sprout EXCEPT ![Lone] = [At(@, "clearing") EXCEPT !.failed = TRUE]]
                   /\ step' = [step EXCEPT !.lost = TRUE] /\ host' = h
        pushed == sprout[Lone].stashed
    IN
    /\ sprout[Lone].phase = "restoring"
    /\ \/ ~pushed /\ LoneTo("clearing", host) /\ Sound
       \/ pushed /\ ~step.jammed /\ LoneTo("clearing", Popped(host)) /\ Sound
       \/ pushed /\ step.jammed /\ lost(host) /\ Sound
       \/ pushed /\ Faulty /\ \E h \in IF step.jammed THEN {host} ELSE Unpopped : lost(h)

LoneClearedAttended == IF sprout[Lone].detached THEN host ELSE Uprooted(host, Lone)
LoneCleared == Uprooted(host, Lone)
LoneClear ==
    /\ sprout[Lone].phase = "clearing"
    /\ LoneTo("done", LoneCleared) /\ Sound

LoneReturns ==
    /\ step.phase \in {"growing", "consensus"} /\ Lone \in step.crew
    /\ sprout[Lone].phase = "done"
    /\ StepTo([At(step, "over") EXCEPT !.error = sprout[Lone].failed], host) /\ Sound

----------------------------------------------------------------------------
Write ==
    /\ \E e \in Writable(host) \ written :
         host' = [host EXCEPT !.dirty = @ \cup {e}] /\ written' = written \cup {e}
    /\ UNCHANGED <<step, sprout, faults>>

Grow(r) == Plant(r) \/ TurnEnds(r) \/ Uproot(r)
Graft == StashForMerge \/ Merge \/ Unstash
LoneSteps == LoneStash \/ LoneTurnEnds \/ LoneMerge \/ LoneRestore \/ LoneClear \/ LoneReturns
Judge == Begin \/ Choose \/ Graft \/ Conclude

Next == (\E r \in Run : Grow(r)) \/ Judge \/ LoneSteps \/ Detach \/ Write

\* Goroutines run, and a turn ends: its session has a watchdog.
Fairness == (\A r \in Run : WF_vars(Grow(r))) /\ WF_vars(Judge) /\ WF_vars(LoneSteps)
Spec == Init /\ [][Next]_vars /\ Fairness

----------------------------------------------------------------------------
TypeOK ==
    /\ host \in Host /\ step \in StepState /\ sprout \in [Run -> Sprouting]
    /\ written \subseteq Edit /\ faults \in 0 .. MaxFaults

Grafted == host.tip[host.head]
Quiet == step.phase = "over" /\ \A r \in step.crew : sprout[r].phase = "done"

\* A Sprout that grows has its worktree, also one whose step returned without
\* it, or chose another.
GrowthKeepsItsTree ==
    \A r \in Run : sprout[r].phase \in {"planted", "growing", "merging"} => r \in host.trees

\* A selection grafts at most one Sprout, and nothing that failed, or failed
\* its fitness test, is on the checkout when the step is over.  That is said of
\* this attempt: a branch that an earlier one left comes with what is on it.
OnlyTheFitAreGrafted ==
    /\ Selective(step.kind) => Cardinality(Grafted \cap Crew) <= 1
    /\ \A r \in Crew : sprout[r].failed => r \notin Grafted

\* A step that reports success has grafted a Sprout that succeeded, its commit
\* if it made one.  A parallel step tolerates a graft that fails, and a
\* detached one has not ended.
OkHasLanded ==
    step.phase = "over" /\ ~step.error /\ step.kind # "parallel" /\ ~sprout[Lone].detached
    => \E r \in step.crew : ~sprout[r].failed /\ (sprout[r].committed => r \in Grafted)

\* The operator's edits are never lost, but for a new file that a grafted commit
\* has too, and are back in the checkout, with an empty stash, once the step and
\* its Sprouts are done, unless a restore failed.
EditsComeBack ==
    /\ Kept(host) \subseteq written /\ written \ Kept(host) \subseteq Hit(written, Grafted)
    /\ Quiet /\ ~step.lost => host.dirty = Kept(host) /\ host.stash = <<>>

\* Every step returns, and every Sprout it left behind ends and is removed.
StepEnds == (step.phase = "growing") ~> (Quiet /\ host.trees = {})

\* Refuted: a step reported complete may have landed nothing, when it detached,
\* and a failed merge leaves the checkout in the middle of it.
CompleteStepHasLanded ==
    step.kind = "plain" /\ Quiet /\ ~step.error => ~sprout[Lone].failed
\* Refuted: a selection grafts what only its own Sprouts wrote.
GraftIsOfThisAttempt == Selective(step.kind) => Past \notin Grafted
CheckoutIsNotJammed == Quiet => ~step.jammed
===============================================================================
