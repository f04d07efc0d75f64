------------------------------- MODULE Substrate -------------------------------
(***************************************************************************)
(* The operator's checkout as Sprouts, sequence steps and the operator     *)
(* share it: the branch it is on, the branches that Sprouts made, the      *)
(* operator's uncommitted edits, the stash stack and the linked worktrees. *)
(* Every operator below is one git command, or one critical section, of a  *)
(* caller; what happens between two of them is for the modules that EXTEND *)
(* this one.  A commit is its history: the set of runs whose grafts it     *)
(* holds, so that ancestry is inclusion.                                   *)
(***************************************************************************)
EXTENDS Naturals, FiniteSets, Sequences

CONSTANTS
    Run,    \* Sprout runs, and the branches named after them
    Main,   \* the protected branch the operator works on
    Edit,   \* uncommitted edits the operator may make
    Clashes \* <<e, r>>: the edit e is a new file, which the commit of r has too

SubstrateAssumption == Main \notin Run /\ Clashes \subseteq Edit \X Run

Branch == Run \cup {Main}

Host == [head : Branch,                         \* the branch checked out
         tip : [Branch -> SUBSET Run],          \* what is grafted on a branch
         exists : SUBSET Branch,
         owned : SUBSET Run,                    \* registered isolation branches
         base : [Run -> SUBSET Run],            \* where they started
         dirty : SUBSET Edit,
         stash : Seq([by : Run, edits : SUBSET Edit]),
         trees : SUBSET Run]                    \* linked worktrees

Pristine == [head |-> Main, tip |-> [b \in Branch |-> {}], exists |-> {Main},
             owned |-> {}, base |-> [r \in Run |-> {}], dirty |-> {},
             stash |-> <<>>, trees |-> {}]

ProtectedByName(h) == FALSE
Protected(h) == h.head = Main

\* `git checkout -b sprout/task-r`, then the registration of its ownership,
\* which may fail and is then only reported.
Isolated(h, r, registered) ==
    [h EXCEPT !.head = r, !.exists = @ \cup {r}, !.tip[r] = h.tip[h.head],
              !.owned = IF registered THEN @ \cup {r} ELSE @,
              !.base[r] = h.tip[h.head]]

\* `git stash save -u`, newest first.
Stashed(h, r) == [h EXCEPT !.dirty = {},
                           !.stash = <<[by |-> r, edits |-> h.dirty]>> \o @]

\* Git never writes over a file that it does not track: no merge and no checkout
\* of the history c goes ahead while an edit is in its way.
Hit(es, c) == {e \in es : \E r \in c : <<e, r>> \in Clashes}
Obstructed(h, c) == Hit(h.dirty, c) # {}

\* `git stash pop` takes the newest entry, whoever pushed it.  A new file whose
\* name the checkout has by now is not laid down: Git then reports a failure and
\* keeps the entry, but the caller recovers by dropping it with the file in it.
CanPop(h) == h.stash # <<>>
Overrun(h) == Hit(Head(h.stash).edits, h.tip[h.head])
Laid(h) == [h EXCEPT !.dirty = @ \cup (Head(h.stash).edits \ Overrun(h))]
Dropped(h) == [h EXCEPT !.stash = Tail(@)]
Popped(h) == Dropped(Laid(h))

Planted(h, r) == [h EXCEPT !.trees = @ \cup {r}]
Uprooted(h, r) == [h EXCEPT !.trees = @ \ {r}]

\* A commit whose history is c can be fast-forwarded onto the branch the
\* checkout is on; a real merge joins both histories.
CanForward(h, c) == h.tip[h.head] \subseteq c /\ ~Obstructed(h, c)
Forwarded(h, c) == [h EXCEPT !.tip[h.head] = c]
Merged(h, c) == [h EXCEPT !.tip[h.head] = @ \cup c]

\* Reclaiming the isolation branch of a run: nothing beyond its base.
NoWorkUnread(h, r) == r \in h.owned /\ r \in h.exists
NoWork(h, r) == r \in h.owned /\ r \in h.exists /\ h.tip[r] \subseteq h.base[r]
CheckedOut(h, b) == [h EXCEPT !.head = b]
Deleted(h, r) == [h EXCEPT !.exists = @ \ {r}, !.owned = @ \ {r}]

\* The edits the operator can make: a file that the checkout has is not new.
Writable(h) == Edit \ Hit(Edit, h.tip[h.head])

\* Every edit that is still somewhere.
Kept(h) == h.dirty \cup UNION {h.stash[i].edits : i \in DOMAIN h.stash}
===============================================================================
