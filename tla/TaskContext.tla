----------------------------- MODULE TaskContext -----------------------------
(***************************************************************************)
(* What a run tells its Mind about the workspace.  The run first brings    *)
(* the index of symbols up to date, one file and one statement of the      *)
(* database after another, and then takes candidates in their order until  *)
(* the budget is used up, while somebody else edits the files.             *)
(***************************************************************************)
EXTENDS Naturals, FiniteSets, FiniteSetsExt

CONSTANTS
    Path,            \* files, numbers in the order of their names
    Test,            \* those that are the test of the file before them
    Run,             \* runs in this workspace
    Alone,           \* no two runs at one time
    Reverts,         \* a file may get an earlier content again
    MaxBytes, ItemMaxBytes, MaxItems,
    MaxEdits, MaxRuns  \* bounds

VARIABLES
    content,  \* for every file the version of its content; 0 is no file
    hash,     \* the version the index has recorded, or 0
    syms,     \* the version its symbols are of, or 0
    run,
    edits, begun

vars == <<content, hash, syms, run, edits, begun>>

Separator == 1

Partner(p) == IF p + 1 \in Test THEN p + 1 ELSE 0

Idle == [at |-> "idle"]

Init ==
    /\ content \in [Path -> {0, 1}]
    /\ hash = [p \in Path |-> 0] /\ syms = [p \in Path |-> 0]
    /\ run = [r \in Run |-> Idle]
    /\ edits = 0 /\ begun = 0

-----------------------------------------------------------------------------
(* The scan.                                                               *)

Begin(r) ==
    /\ run[r].at = "idle" /\ begun < MaxRuns
    /\ Alone => \A q \in Run : run[q].at = "idle"
    /\ run' = [run EXCEPT ![r] = [at |-> "scan", todo |-> Path, seen |-> {}]]
    /\ begun' = begun + 1
    /\ UNCHANGED <<content, hash, syms, edits>>

\* A file that is recorded at its content is skipped; one that cannot be
\* parsed keeps what the index has of it.
ScanFile(r) ==
    /\ run[r].at = "scan" /\ run[r].todo # {}
    /\ LET p == Min(run[r].todo)
           next == [run[r] EXCEPT !.todo = @ \ {p}]
       IN  run' = [run EXCEPT ![r] =
                      IF content[p] = 0 THEN next
                      ELSE IF hash[p] = content[p] THEN [next EXCEPT !.seen = @ \cup {p}]
                      ELSE [at |-> "write", todo |-> next.todo, seen |-> next.seen \cup {p},
                            file |-> p, version |-> content[p], step |-> 1]]
    /\ UNCHANGED <<content, hash, syms, edits, begun>>

ParseFails(r) ==
    /\ run[r].at = "write" /\ run[r].step = 1
    /\ run' = [run EXCEPT ![r] = [at |-> "scan", todo |-> @.todo, seen |-> @.seen]]
    /\ UNCHANGED <<content, hash, syms, edits, begun>>

RecordFirst == <<"file", "delete", "insert">>

\* The record of the file is the last of the three statements.
Statements == <<"delete", "insert", "file">>

WriteIndex(r) ==
    /\ run[r].at = "write"
    /\ LET p == run[r].file
           statement == Statements[run[r].step]
       IN  /\ syms' = CASE statement = "delete" -> [syms EXCEPT ![p] = 0]
                        [] statement = "insert" -> [syms EXCEPT ![p] = run[r].version]
                        [] OTHER -> syms
           /\ hash' = IF statement = "file" THEN [hash EXCEPT ![p] = run[r].version] ELSE hash
    /\ run' = [run EXCEPT ![r] =
                  IF run[r].step = 3 THEN [at |-> "scan", todo |-> @.todo, seen |-> @.seen]
                  ELSE [run[r] EXCEPT !.step = @ + 1]]
    /\ UNCHANGED <<content, edits, begun>>

\* Files that are recorded and were not met lose their symbols and then their record.
Gone(r) == {p \in Path \ run[r].seen : hash[p] # 0}

Purge(r) ==
    /\ run[r].at = "scan" /\ run[r].todo = {} /\ Gone(r) # {}
    /\ LET p == Min(Gone(r))
       IN  IF syms[p] # 0
           THEN syms' = [syms EXCEPT ![p] = 0] /\ UNCHANGED hash
           ELSE hash' = [hash EXCEPT ![p] = 0] /\ UNCHANGED syms
    /\ UNCHANGED <<content, run, edits, begun>>

\* A statement fails, or the run is cancelled or dies.
Interrupt(r) ==
    /\ run[r].at # "idle"
    /\ run' = [run EXCEPT ![r] = Idle]
    /\ UNCHANGED <<content, hash, syms, edits, begun>>

-----------------------------------------------------------------------------
(* The assembly.                                                           *)

Candidate(kind, priority, path, lines) ==
    [kind |-> kind, priority |-> priority, path |-> path, lines |-> lines]

\* The prompt names files, the symbols of others match its words, others
\* have changed, and there are memories; a file is taken once, for the first
\* of these.
Gathered(anchors, exact, lexical, changed, memories) ==
    {Candidate("anchor", 0, p, 0) : p \in anchors}
    \cup {Candidate("symbol", IF p \in exact THEN 1 ELSE 2, p, syms[p]) :
             p \in (exact \cup lexical) \ anchors}
    \cup {Candidate("git", 3, p, 0) : p \in changed \ (anchors \cup exact \cup lexical)}
    \cup {Candidate("memory", 5, m, 0) : m \in memories}

Indexed == {p \in Path : syms[p] # 0}

Gather(r) ==
    /\ run[r].at = "scan" /\ run[r].todo = {} /\ Gone(r) = {}
    /\ \E anchors, changed \in SUBSET Path, exact, lexical \in SUBSET Indexed, memories \in {{}, {1}} :
          LET found == Gathered(anchors, exact, lexical \ exact, changed, memories)
          IN  run' = [run EXCEPT ![r] =
                         [at |-> "select", pending |-> found, known |-> found, items |-> {},
                          used |-> 0, omitted |-> 0, cut |-> {}]]
    /\ UNCHANGED <<content, hash, syms, edits, begun>>

Before(a, b) == a.priority < b.priority \/ (a.priority = b.priority /\ a.path <= b.path)

First(set) == CHOOSE c \in set : \A d \in set : Before(c, d)

\* The text between two items is paid for by the second.
Fee(used) == IF used = 0 THEN 0 ELSE Separator

RemainingUnpaid(used) == MaxBytes - used

Remaining(used) == IF MaxBytes < used + Fee(used) THEN 0 ELSE MaxBytes - used - Fee(used)

ItemBudget(used) == IF ItemMaxBytes < Remaining(used) THEN ItemMaxBytes ELSE Remaining(used)

\* A file is read to its end and quoted up to the budget.
Sizes(used) == 1 .. ItemBudget(used)

LeftBehind(pending) == Cardinality(pending) - 1

LeftOut(pending) == Cardinality(pending)

\* The items or the bytes are used up: this candidate and the rest are left out.
Stop(r) ==
    /\ run[r].at = "select" /\ run[r].pending # {}
    /\ Cardinality(run[r].items) >= MaxItems \/ Remaining(run[r].used) = 0
    /\ run' = [run EXCEPT ![r] =
                  [run[r] EXCEPT !.at = "ready", !.pending = {}, !.cut = run[r].pending,
                                 !.omitted = @ + LeftOut(run[r].pending)]]
    /\ UNCHANGED <<content, hash, syms, edits, begun>>

FreshUnchecked(c) == TRUE

\* Symbols are evidence only of the content that the index has recorded.
Fresh(c) == c.kind = "symbol" => hash[c.path] = content[c.path]

Readable(c) == c.kind = "memory" \/ (content[c.path] # 0 /\ Fresh(c))

AnyPriority == 0

AssociatedPriority == 4

\* A test follows the file that it is the test of.
Associated(r, c) ==
    LET t == Partner(c.path)
    IN  IF c.kind \in {"memory", "test"} \/ t = 0 THEN {}
        ELSE IF content[t] = 0 THEN {}
        ELSE IF \E k \in run[r].known : k.kind # "memory" /\ k.path = t THEN {}
        ELSE {Candidate("test", AssociatedPriority, t, 0)}

Omit(r) ==
    /\ run[r].at = "select" /\ run[r].pending # {}
    /\ Cardinality(run[r].items) < MaxItems /\ Remaining(run[r].used) > 0
    /\ ~Readable(First(run[r].pending))
    /\ run' = [run EXCEPT ![r].pending = @ \ {First(run[r].pending)}, ![r].omitted = @ + 1]
    /\ UNCHANGED <<content, hash, syms, edits, begun>>

Admit(r) == \E size \in 1 .. ItemMaxBytes :
    /\ run[r].at = "select" /\ run[r].pending # {}
    /\ Cardinality(run[r].items) < MaxItems /\ Remaining(run[r].used) > 0
    /\ Readable(First(run[r].pending))
    /\ size \in Sizes(run[r].used)
    /\ LET c == First(run[r].pending)
           new == Associated(r, c)
           item == [priority |-> c.priority, path |-> c.path, kind |-> c.kind, lines |-> c.lines,
                    of |-> IF c.kind = "memory" THEN 0 ELSE content[c.path]]
       IN  run' = [run EXCEPT ![r] =
                      [run[r] EXCEPT !.pending = (@ \ {c}) \cup new, !.known = @ \cup new,
                                     !.items = @ \cup {item}, !.used = @ + Fee(@) + size]]
    /\ UNCHANGED <<content, hash, syms, edits, begun>>

Finish(r) ==
    /\ \/ run[r].at = "select" /\ run[r].pending = {}
       \/ run[r].at = "ready"
    /\ run' = [run EXCEPT ![r] = Idle]
    /\ UNCHANGED <<content, hash, syms, edits, begun>>

\* A new content is one that the file never had, or the file is removed.
Edit == \E p \in Path, v \in 0 .. MaxEdits + 1 :
    /\ edits < MaxEdits /\ v # content[p]
    /\ v = edits + 2 \/ v = 0 \/ Reverts
    /\ content' = [content EXCEPT ![p] = v]
    /\ edits' = edits + 1
    /\ UNCHANGED <<hash, syms, run, begun>>

Next ==
    \/ \E r \in Run : Begin(r) \/ ScanFile(r) \/ ParseFails(r) \/ WriteIndex(r) \/ Purge(r)
                      \/ Interrupt(r) \/ Gather(r) \/ Stop(r) \/ Omit(r) \/ Admit(r) \/ Finish(r)
    \/ Edit

Behaviour == Init /\ [][Next]_vars

-----------------------------------------------------------------------------

Selecting(r) == run[r].at \in {"select", "ready"}

\* The lines that a symbol names are lines of the very content that is
\* quoted, after scans that broke off anywhere and edits at any time
\* (ScanRepository writes the record last, assembleTaskContext compares it).
LinesFitTheText == \A r \in Run : Selecting(r) =>
    \A i \in run[r].items : i.kind = "symbol" => i.lines = i.of

\* The text stays within its budget, separators included.
WithinBudget == \A r \in Run : Selecting(r) =>
    run[r].used <= MaxBytes /\ Cardinality(run[r].items) <= MaxItems

\* Nothing that was left out for the budget comes before something that was
\* taken, though the tests of files that were taken join later.
BestFirst == \A r \in Run : Selecting(r) =>
    \A c \in run[r].cut, i \in run[r].items : i.priority <= c.priority

\* Every candidate is an item of the manifest or one of its omissions.
EveryCandidateIsCounted == \A r \in Run : Selecting(r) =>
    Cardinality(run[r].known) =
        Cardinality(run[r].items) + run[r].omitted + Cardinality(run[r].pending)

=============================================================================
