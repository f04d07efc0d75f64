------------------------------ MODULE MCReception ------------------------------
(* What stands at the door of a Stem: who is shown a Phytomer, which process  *)
(* owns the local socket and the order in which it shuts down, the limits of  *)
(* the public ingress, and the pushes it takes over the mesh.  A behaviour    *)
(* has its focus on one of the four and the others rest, so that TLC explores *)
(* the disjoint union of their graphs.                                        *)
EXTENDS Ingress, TLC
CONSTANTS Pollens, Operator, Substrates, Watchers, Commands, NoSeed, MaxRuns, MaxChanges,
          Serving, Ports, Inodes, NoKey, EnvKey, Outsiders, MaxStarts, MaxRequests,
          Grafting, MaxWork, MaxGrafts, MaxKeys, Crashes,
          q1, q2, d1, d2, g1, g2, m1, m2   \* Pollens, Stems that serve, clients, Stems that graft
VARIABLES
    focus,
    roots, tokens, grants, runs, seed, watcher, command, changes,
    stem, path, inode, keyFile, starts, lost,
    top, call, serve, commits, origin, head, keys, used

Views == INSTANCE Observers WITH
    Views <- {"state", "runs", "events", "stream"}
Service == INSTANCE Daemon WITH Stems <- Serving
Mesh == INSTANCE Graft WITH Stems <- Grafting

\* The limits of the public ingress: one request of each governed kind.
MCLimit == [connections |-> 2, requests |-> 2, mints |-> 1, admissions |-> 1,
            observations |-> 1]

\* No Seed row is none of the rows.
ASSUME NoSeedIsNoRow ==
    NoSeed \notin [pollen : Pollens \cup {Operator}, substrate : Substrates, settled : BOOLEAN]

views == <<roots, tokens, grants, runs, seed, watcher, command, changes>>
service == <<stem, path, inode, keyFile, starts, lost>>
mesh == <<top, call, serve, commits, origin, head, keys, used>>

MCInit ==
    /\ focus \in {"views", "service", "public", "mesh"}
    /\ Views!Init /\ Service!Init /\ Init /\ Mesh!Init

MCNext ==
    /\ \/ focus = "views" /\ Views!Next /\ UNCHANGED <<service, vars, mesh>>
       \/ focus = "service" /\ Service!Next /\ UNCHANGED <<views, vars, mesh>>
       \/ focus = "public" /\ Next /\ UNCHANGED <<views, service, mesh>>
       \/ focus = "mesh" /\ Mesh!Next /\ UNCHANGED <<views, service, vars>>
    /\ UNCHANGED focus

MCSpec == MCInit /\ [][MCNext]_<<focus, views, service, vars, mesh>>

\* The two Pollens are alike, the two Stems, the two clients and the two that
\* push: only one of these pairs ever moves, so that one exchange of all is enough.
Exchange == (q1 :> q2) @@ (q2 :> q1) @@ (d1 :> d2) @@ (d2 :> d1)
            @@ (g1 :> g2) @@ (g2 :> g1) @@ (m1 :> m2) @@ (m2 :> m1)
Alike == {f \in Permutations(DOMAIN Exchange) : f = Exchange \/ \A x \in DOMAIN f : f[x] = x}

-----------------------------------------------------------------------------
\* Whoever presents a credential acts as its Pollen or not at all, is shown
\* only what that Pollen dispatched in the views that ask again, and after its
\* authority lapsed at most the frame it was already checked for.
SeenByItsOwner ==
    focus = "views" =>
        /\ Views!NamedStaysNamed
        /\ Views!StateAndRunsAreOwn
        /\ Views!RevokedSeesNoMore

\* A Stem that starts, dies or stops never unlinks the socket another listens
\* on; the bus is shut down after the last request of each server, the database
\* after the last buffered event.
ServiceIsOrderly ==
    /\ [](focus = "service" => Service!ClosedInOrder)
    /\ Service!SocketIsNotStolen

\* What stands on a branch of the remote passed the governance sequence in the
\* tree that was pushed, and holds no patch twice; a caller told its graft is
\* complete finds the patch there, and a graft leaves what others have pushed.
GraftsAreGoverned ==
    /\ [](focus = "mesh" => Mesh!PushedIsGoverned /\ Mesh!CompleteIsPushed)
    /\ Mesh!BranchesMoveForward

===============================================================================
