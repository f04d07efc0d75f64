------------------------------ MODULE Registry ------------------------------
(***************************************************************************)
(* The Substrate registry: one document of Substrates and of the           *)
(* credential profiles they name.  Each command of the Botanist is a       *)
(* process that reads the document, changes its copy and replaces the      *)
(* file, under no lock; a Stem keeps the document of its start for its delegated calls    *)
(* while every growth reads the file again.                                *)
(***************************************************************************)
EXTENDS Naturals, FiniteSets

CONSTANTS
    Name,        \* Substrates; a profile has the name of the Substrate it was made for
    Url, Key,    \* repositories and credentials
    Default,     \* the Substrate that setup substrate writes
    Command,     \* processes of the Botanist's commands
    Growth,      \* growths of the Stem
    None, NoDoc, Broken,
    MaxCommands, MaxEdits  \* bounds

VARIABLES
    legacy,  \* the document in the home root, or NoDoc; never written
    file,    \* the canonical registry: a document, NoDoc or Broken
    grants,  \* Substrates named by a grant that has not expired
    cmd,     \* the commands
    stem,    \* the document the Stem has read at its start, or NoDoc
    growth,
    edits, begun  \* counters

vars == <<legacy, file, grants, cmd, stem, growth, edits, begun>>

\* A profile of "inline" is a Substrate that carries its credential itself.
Spec(url, profile) == [url |-> url, profile |-> profile]

Empty == [sub |-> [n \in Name |-> None], cred |-> [n \in Name |-> None]]

Request == [kind : {"add", "setup", "force"}, name : Name, url : Url, key : Key]
           \cup [kind : {"update"}, name : Name, url : Url]
           \cup [kind : {"remove"}, name : Name]
           \cup [kind : {"default"}, name : {Default}, url : Url]

Idle == [at |-> "idle"]

\* What an operator writes by hand: every Substrate on one shared profile.
Shared == {[sub |-> [n \in Name |-> Spec(u, p)],
            cred |-> [n \in Name |-> IF n = p THEN k ELSE None]] :
              u \in Url, p \in Name, k \in Key}

Init ==
    /\ legacy \in Shared \cup {NoDoc}
    /\ file = NoDoc
    /\ grants = {}
    /\ cmd = [c \in Command |-> Idle]
    /\ stem = NoDoc
    /\ growth = [g \in Growth |-> Idle]
    /\ edits = 0 /\ begun = 0

-----------------------------------------------------------------------------
(* Reading.                                                                *)

\* The canonical file, then the one in the home root; without both, nothing.
Candidates == <<file, legacy, Empty>>

Active == LET first == CHOOSE i \in 1 .. 3 : /\ Candidates[i] # NoDoc
                                            /\ \A j \in 1 .. i - 1 : Candidates[j] = NoDoc
          IN  Candidates[first]

Valid(doc) == doc # Broken

\* The credential of a Substrate: an unknown profile is an error.
Resolves(doc, s) == s.profile = "inline" \/ doc.cred[s.profile] # None

Credential(doc, s) == IF s.profile = "inline" THEN "inline" ELSE doc.cred[s.profile]

-----------------------------------------------------------------------------
(* What a command makes of its copy: the set is empty when it refuses.     *)

Connected(doc, w) ==
    [sub |-> [doc.sub EXCEPT ![w.name] = Spec(w.url, w.name)],
     cred |-> [doc.cred EXCEPT ![w.name] = w.key]]

\* add, and setup without force: neither entry may exist.
Added(doc, w) ==
    IF doc.cred[w.name] = None /\ doc.sub[w.name] = None THEN {Connected(doc, w)} ELSE {}

Updated(doc, w) ==
    IF doc.sub[w.name] = None THEN {}
    ELSE {[doc EXCEPT !.sub[w.name].url = w.url]}

\* MUTANT: the profile goes with the first Substrate that named it.
RemovedWithProfile(doc, w) ==
    LET p == doc.sub[w.name].profile
    IN  IF doc.sub[w.name] = None THEN {}
        ELSE {[sub |-> [doc.sub EXCEPT ![w.name] = None],
               cred |-> IF p = "inline" THEN doc.cred
                        ELSE [doc.cred EXCEPT ![p] = None]]}

\* The profile goes with the last Substrate that names it.
Removed(doc, w) ==
    IF doc.sub[w.name] = None THEN {}
    ELSE LET p == doc.sub[w.name].profile
             shared == \E n \in Name \ {w.name} : doc.sub[n] # None /\ doc.sub[n].profile = p
         IN  {[sub |-> [doc.sub EXCEPT ![w.name] = None],
               cred |-> IF p = "inline" \/ shared THEN doc.cred
                        ELSE [doc.cred EXCEPT ![p] = None]]}

\* setup substrate writes one entry with its credential inside.
Defaulted(doc, w) ==
    IF doc.sub[w.name] # None THEN {}
    ELSE {[doc EXCEPT !.sub[w.name] = Spec(w.url, "inline")]}

Changed(doc, w) ==
    CASE w.kind \in {"add", "setup"} -> Added(doc, w)
      [] w.kind = "force" -> {Connected(doc, w)}
      [] w.kind = "update" -> Updated(doc, w)
      [] w.kind = "remove" -> Removed(doc, w)
      [] w.kind = "default" -> Defaulted(doc, w)

-----------------------------------------------------------------------------
(* A command.                                                              *)

\* A live grant that names the Substrate keeps it from being removed.
Blocked(w) == w.kind = "remove" /\ w.name \in grants

\* remove loads the grants first.
Begin(c) ==
    /\ cmd[c] = Idle /\ begun < MaxCommands
    /\ \E w \in Request : /\ ~Blocked(w)
                          /\ cmd' = [cmd EXCEPT ![c] = [at |-> "begun", what |-> w]]
    /\ begun' = begun + 1
    /\ UNCHANGED <<legacy, file, grants, stem, growth, edits>>

\* MUTANT: the first command starts from nothing, whatever the legacy file says.
BaseWithoutImport == IF file # NoDoc THEN file ELSE Empty

\* The document a change starts from; the legacy one is imported.
Base == IF file # NoDoc THEN file ELSE IF legacy # NoDoc THEN legacy ELSE Empty

\* A document that does not validate is never changed; a refusal writes nothing.
\* Ghost: the registry as it was then.
Read(c) ==
    /\ cmd[c].at = "begun"
    /\ LET made == IF ~Valid(Base) THEN {} ELSE Changed(Base, cmd[c].what)
       IN  cmd' = [cmd EXCEPT ![c] =
                     IF made = {} THEN Idle
                     ELSE [at |-> "read", what |-> @.what, was |-> Active,
                           doc |-> CHOOSE d \in made : TRUE]]
    /\ UNCHANGED <<legacy, file, grants, stem, growth, edits, begun>>

\* The file is replaced by a rename; an error may precede it or, from the
\* directory's sync, follow it.
Replace(c) ==
    /\ cmd[c].at = "read"
    /\ file' \in {file, cmd[c].doc}
    /\ cmd' = [cmd EXCEPT ![c] = Idle]
    /\ UNCHANGED <<legacy, grants, stem, growth, edits, begun>>

\* Another command adds a grant or takes one away; names are not looked up.
ChangeGrants ==
    /\ edits < MaxEdits
    /\ edits' = edits + 1
    /\ \E n \in Name : grants' \in {grants \cup {n}, grants \ {n}}
    /\ UNCHANGED <<legacy, file, cmd, stem, growth, begun>>

EditByHand ==
    /\ edits < MaxEdits
    /\ edits' = edits + 1
    /\ file' \in Shared \cup {Broken}
    /\ UNCHANGED <<legacy, grants, cmd, stem, growth, begun>>

-----------------------------------------------------------------------------
(* The Stem and its growths.                                               *)

\* The configuration is read once; what does not load leaves the Stem without.
Boot ==
    /\ stem = NoDoc
    /\ stem' = IF Valid(Active) THEN Active ELSE Empty
    /\ UNCHANGED <<legacy, file, grants, cmd, growth, edits, begun>>

\* A raw Sprout takes its repository from the Stem's document; a Seed's growth
\* names the Substrate alone.
Wire(g) ==
    /\ growth[g] = Idle /\ stem # NoDoc
    /\ \E n \in Name, seed \in BOOLEAN :
          growth' = [growth EXCEPT ![g] =
             [at |-> "wired", name |-> n, seed |-> seed,
              url |-> IF seed \/ stem.sub[n] = None THEN None ELSE stem.sub[n].url]]
    /\ UNCHANGED <<legacy, file, grants, cmd, stem, edits, begun>>

\* The run reads the file again: the repository is the caller's where it named
\* one, the credential is the file's; a name the file does not know has none.
Plan(g) ==
    /\ growth[g].at = "wired"
    /\ LET r == growth[g]
           s == IF Valid(Active) THEN Active.sub[r.name] ELSE None
       IN  growth' = [growth EXCEPT ![g] =
             IF ~Valid(Active) \/ (s = None /\ r.url = None) THEN Idle
             ELSE IF s = None
             THEN [at |-> "planned", name |-> r.name, seed |-> r.seed,
                   url |-> r.url, key |-> None, of |-> None]  \* a path, not a name
             ELSE IF ~Resolves(Active, s) THEN Idle
             ELSE [at |-> "planned", name |-> r.name, seed |-> r.seed,
                   url |-> IF r.url # None THEN r.url ELSE s.url,
                   key |-> Credential(Active, s), of |-> s.url]]
    /\ UNCHANGED <<legacy, file, grants, cmd, stem, edits, begun>>

\* A Seed resolves its plan once more to publish; a raw Sprout is finished.
Publish(g) ==
    /\ growth[g].at = "planned"
    /\ LET s == IF Valid(Active) THEN Active.sub[growth[g].name] ELSE None
       IN  growth' = [growth EXCEPT ![g] =
             IF ~growth[g].seed \/ s = None THEN Idle
             ELSE IF ~Resolves(Active, s) THEN Idle
             ELSE [@ EXCEPT !.at = "published", !.key = Credential(Active, s), !.of = s.url]]
    /\ UNCHANGED <<legacy, file, grants, cmd, stem, edits, begun>>

Settle(g) ==
    /\ growth[g].at = "published"
    /\ growth' = [growth EXCEPT ![g] = Idle]
    /\ UNCHANGED <<legacy, file, grants, cmd, stem, edits, begun>>

Changes ==
    \/ \E c \in Command : Begin(c) \/ Read(c) \/ Replace(c)
    \/ ChangeGrants \/ EditByHand

Uses == Boot \/ \E g \in Growth : Wire(g) \/ Plan(g) \/ Publish(g) \/ Settle(g)

Next == Changes \/ Uses

Behaviour == Init /\ [][Next]_vars

-----------------------------------------------------------------------------

\* Whatever the commands have done to the file, a Substrate in it names a
\* profile that is there, so that each one can be resolved: removal keeps a
\* profile that is still shared (RemoveCanonical), force replaces both entries.
ProfilesResolve ==
    file \notin {NoDoc, Broken} =>
        \A n \in Name : file.sub[n] # None => Resolves(file, file.sub[n])

Replaces(c) == cmd[c].at = "read" /\ cmd'[c] = Idle /\ file' # file

\* A command imports the legacy file with its first change and leaves each
\* Substrate that it does not name as it read it (Mutate): what others have
\* written since is all that it loses, and with nobody in between nothing.
OthersAreKept ==
    [][\A c \in Command : Replaces(c) =>
          \A n \in Name \ {cmd[c].what.name} : file'.sub[n] = cmd[c].was.sub[n]]_vars

\* Refuted by two commands that overlap, or a command and an editor.
NoChangeIsLost ==
    [][\A c \in Command : Replaces(c) =>
          \A n \in Name \ {cmd[c].what.name} : file'.sub[n] = Active.sub[n]]_vars

\* Refuted by a grant that is added after remove has loaded them: when a
\* Substrate is removed no live grant names it.
RemovalIsDependencySafe ==
    [][\A n \in Name : (edits' = edits /\ Valid(Active)) =>
          (Active.sub[n] # None /\ Active'.sub[n] = None => n \notin grants)]_vars

\* Refuted by force on a shared profile: a command leaves the credential of a
\* Substrate it does not name as it is.
OthersKeepTheirCredential ==
    [][(edits' = edits /\ Valid(Active)) =>
          \A n \in Name : (\A c \in Command : Replaces(c) => cmd[c].what.name # n)
             /\ Active.sub[n] # None /\ Active'.sub[n] # None =>
             Credential(Active', Active'.sub[n]) = Credential(Active, Active.sub[n])]_vars

\* Refuted by an update after the Stem has started, or between the two plans of
\* a Seed: the repository and the credential of a growth are of one entry.
OneConnection == \A g \in Growth : growth[g].at \in {"planned", "published"} =>
                                       growth[g].url = growth[g].of

=============================================================================
