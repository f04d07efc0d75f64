---------------------------- MODULE BranchesProofs ----------------------------
(***************************************************************************)
(* What becomes of commits and refs, for every value of the constants of   *)
(* MCBranches: that a change is published once (FruitPublication), that    *)
(* fetches and refreshes of one checkout hold together (Checkouts), and    *)
(* that runs give the operator's checkout back (SproutRun).                *)
(***************************************************************************)
EXTENDS MCBranches, SequenceTheorems, FiniteSetTheorems, TLAPS

-----------------------------------------------------------------------------
(***************************************************************************)
(* A change is published once (FruitPublication.PublishedOnce), for any     *)
(* calls, tries and interventions of others.                                *)
(*                                                                         *)
(* The invariant is about the chains that are anywhere: on the forge now or *)
(* before, under a request, behind a call, at HEAD.  Each holds a change    *)
(* once, since whoever may append a change does so to a chain without it    *)
(* (Standing); and while a call of a first try can still say that nothing   *)
(* was accepted, its change is in no chain and no request of its own can    *)
(* append it (Untouched).                                                   *)
(***************************************************************************)
Chain == Seq(Calls \cup {Foreign})

In(x, s) == \E i \in 1..Len(s) : s[i] = x
Once(s) == \A i, j \in 1..Len(s) : s[i] = s[j] /\ s[i] \in Calls => i = j

Trees == [head : Chain, dirty : SUBSET Calls, version : Nat]

\* Where a call is, by what it publishes for.
Resting == {"new", "done", "failed", "unsent", "nothing"}
OfManaged == {"new", "create", "whose", "commit", "look", "replay", "last",
              "done", "failed", "unsent"}
OfPlain == {"new", "only", "done", "failed"}
OfDelegated == {"new", "establish", "root", "reroot", "rooted", "unsure", "commit", "look",
                "replay", "last", "land", "reset", "done", "nothing", "failed", "unsent"}
Places == OfManaged \cup OfPlain \cup OfDelegated
PlacesOf(k) == IF k = "managed" THEN OfManaged
               ELSE IF k = "plain" THEN OfPlain ELSE OfDelegated

Records == [at : Places, base : Chain, seen : Trees, oid : Chain, tries : Nat]

Types == /\ kind \in Kinds
         /\ remote \in Chain \cup {Absent}
         /\ held \in SUBSET (Chain \cup {Absent})
         /\ flight \in SUBSET Requests
         /\ ws \in Trees
         /\ call \in [Calls -> Records]
         /\ others \in Nat

\* Every chain there is.
Chains == (held \ {Absent}) \cup {m.base : m \in flight} \cup {ws.head}
            \cup {call[d].base : d \in Calls} \cup {call[d].oid : d \in Calls}

\* What the place of a call says of the rest of it.
Standing(c) ==
  LET r == call[c] IN
  /\ r.at \in PlacesOf(kind)
  /\ r.at = "new" <=> r.tries = 0
  /\ r.at \notin Resting => r.base = r.seen.head /\ ~In(c, r.base)
  /\ r.at \in {"land", "reset"} => r.oid = Append(r.base, c)
  /\ r.at \in {"land", "reset", "done"} =>
       r.oid \in held /\ r.oid # <<>> /\ r.oid[Len(r.oid)] = c

\* Nothing of the change has left the caller.
Fresh(c) == /\ \A s \in Chains : ~In(c, s)
            /\ \A m \in flight : m.call = c => m.act = "ref"

\* From here a call can still come to say that no commit was accepted.
Before == {"new", "create", "establish", "root", "reroot", "rooted", "unsure",
           "commit", "unsent"}
Untouched(c) == call[c].at \in Before /\ call[c].tries <= 1 => Fresh(c)

Safe == /\ remote # Absent => remote \in held
        /\ \A s \in Chains : Once(s)
        /\ \A m \in flight : m.act = "commit" => ~In(m.call, m.base)
        /\ \A c \in ws.dirty : ~In(c, ws.head)
        /\ kind # "delegated" => ws.dirty = Calls
        /\ \A c \in Calls : Standing(c)
        /\ \A c \in Calls : Untouched(c)

IInv == Types /\ Safe

-----------------------------------------------------------------------------
(* Chains.                                                                 *)

\* Appending adds one commit, the last, and makes no chain of the absent branch.
LEMMA Appending ==
  ASSUME NEW s \in Chain, NEW y \in Calls \cup {Foreign}
  PROVE  /\ Append(s, y) \in Chain
         /\ Append(s, y) # Absent
         /\ Append(s, y) # <<>>
         /\ Append(s, y)[Len(Append(s, y))] = y
         /\ \A x : In(x, Append(s, y)) <=> In(x, s) \/ x = y
<1>1. Append(s, y) \in Chain /\ Len(Append(s, y)) = Len(s) + 1
  BY DEF Chain
<1>2. Append(s, y)[Len(s) + 1] = y /\ Append(s, y) # <<>>
  BY DEF Chain
<1>3. Append(s, y) # Absent
  BY <1>1, FruitPublicationAssumption DEF Chain
<1>4. ASSUME NEW x PROVE In(x, Append(s, y)) <=> In(x, s) \/ x = y
  <2>1. \A i \in 1..Len(s) : Append(s, y)[i] = s[i]
    BY DEF Chain
  <2>2. Len(s) \in Nat
    BY DEF Chain
  <2> QED BY <1>1, <1>2, <2>1, <2>2 DEF In
<1> QED BY <1>1, <1>2, <1>3, <1>4

\* A chain that holds a change once still does with a commit that is somebody
\* else's or a change it did not hold.
LEMMA AppendingOnce ==
  ASSUME NEW s \in Chain, NEW y \in Calls \cup {Foreign}, Once(s),
         y \in Calls => ~In(y, s)
  PROVE  Once(Append(s, y))
<1> DEFINE t == Append(s, y)
<1>1. Len(s) \in Nat /\ Len(t) = Len(s) + 1 /\ t[Len(s) + 1] = y
  BY DEF Chain
<1>2. \A i \in 1..Len(s) : t[i] = s[i]
  BY DEF Chain
<1>3. SUFFICES ASSUME NEW i \in 1..Len(t), NEW j \in 1..Len(t), t[i] = t[j], t[i] \in Calls
               PROVE  i = j
  BY DEF Once
<1>4. CASE i \in 1..Len(s) /\ j \in 1..Len(s)
  BY <1>2, <1>3, <1>4 DEF Once
<1>5. CASE i = Len(s) + 1 /\ j \in 1..Len(s)
  BY <1>1, <1>2, <1>3, <1>5 DEF In
<1>6. CASE j = Len(s) + 1 /\ i \in 1..Len(s)
  BY <1>1, <1>2, <1>3, <1>6 DEF In
<1>7. CASE i = Len(s) + 1 /\ j = Len(s) + 1
  BY <1>7
<1> HIDE DEF t
<1> QED BY <1>1, <1>4, <1>5, <1>6, <1>7

LEMMA TheEmptyChain == <<>> \in Chain /\ Once(<<>>) /\ \A x : ~In(x, <<>>)
BY DEF Chain, Once, In

LEMMA ChainsAreChains == ASSUME Types PROVE \A s \in Chains : s \in Chain
BY DEF Types, Chains, Requests, Chain, Trees, Records

\* One step makes chains of those there were, by appending what some X append.
Grown(X) ==
  \A s \in Chains' : \/ s \in Chains \/ s = <<>>
                     \/ \E t \in Chains, x \in X :
                          s = Append(t, x) /\ (x \in Calls => ~In(x, t))

LEMMA GrownOnce ==
  ASSUME IInv, NEW X \in SUBSET (Calls \cup {Foreign}), Grown(X)
  PROVE  \A s \in Chains' : Once(s)
<1> SUFFICES ASSUME NEW s \in Chains' PROVE Once(s)
  OBVIOUS
<1>1. CASE s \in Chains \/ s = <<>>
  BY <1>1, TheEmptyChain DEF IInv, Safe
<1>2. ASSUME NEW t \in Chains, NEW x \in X, s = Append(t, x), x \in Calls => ~In(x, t)
      PROVE  Once(s)
  BY <1>2, AppendingOnce, ChainsAreChains DEF IInv, Safe
<1> QED BY <1>1, <1>2 DEF Grown

\* What none of them is stays out of every chain.
LEMMA GrownFresh ==
  ASSUME IInv, NEW X \in SUBSET (Calls \cup {Foreign}), Grown(X),
         NEW c \in Calls \ X, \A s \in Chains : ~In(c, s)
  PROVE  \A s \in Chains' : ~In(c, s)
<1> SUFFICES ASSUME NEW s \in Chains' PROVE ~In(c, s)
  OBVIOUS
<1>1. CASE s \in Chains \/ s = <<>>
  BY <1>1, TheEmptyChain
<1>2. ASSUME NEW t \in Chains, NEW x \in X, s = Append(t, x)
      PROVE  ~In(c, s)
  BY <1>2, Appending, ChainsAreChains DEF IInv
<1> QED BY <1>1, <1>2 DEF Grown

-----------------------------------------------------------------------------
(* Steps of a call that asks the forge, or nobody.                          *)

Asked(c, act) ==
  LET m == Request(c, act) IN
    \/ Sent(m, TRUE) \/ Refused(m, TRUE) \/ Unsent(TRUE) \/ Lost(m, TRUE)

Accepted(c, act) == Sent(Request(c, act), TRUE)

\* A call moves to a place and may have an oid, whatever becomes of a request.
Moved(c, act, at, o) ==
  /\ Asked(c, act)
  /\ Still
  /\ call' = [call EXCEPT ![c].at = at, ![c].oid = o]

\* Only the change of the call is added to chains, and to none that has it.
LEMMA AskedOfTheForge ==
  ASSUME IInv, NEW c \in Calls, NEW act \in {"ref", "commit"}, Asked(c, act),
         call[c].at \notin Resting
  PROVE  /\ remote' \in Chain \cup {Absent}
         /\ held' \in SUBSET (Chain \cup {Absent})
         /\ held \subseteq held'
         /\ remote' # Absent => remote' \in held'
         /\ flight' \in SUBSET Requests
         /\ flight' \subseteq flight \cup {Request(c, act)}
         /\ \A m \in flight' : m.act = "commit" => ~In(m.call, m.base)
         /\ \A h \in held' : \/ h \in held \/ h = call[c].base
                             \/ act = "commit" /\ h = Append(call[c].base, c)
         /\ Accepted(c, act) /\ act = "commit" => Append(call[c].base, c) \in held'
<1> DEFINE m == Request(c, act)
           b == call[c].base
<1>1. b \in Chain /\ ~In(c, b)
  BY DEF IInv, Types, Safe, Standing, Records
<1>2. Append(b, c) \in Chain /\ Append(b, c) # Absent
  BY <1>1, Appending
<1>3. m \in Requests /\ m.call = c /\ m.act = act /\ m.base = b
  BY <1>1 DEF Request, Requests, Chain
<1>4. ASSUME Sent(m, TRUE), act = "ref"
      PROVE  /\ remote' = b
             /\ held' = held \cup {b}
             /\ flight' = flight
  BY <1>3, <1>4 DEF Sent, Effect
<1>5. ASSUME Sent(m, TRUE), act = "commit"
      PROVE  /\ remote' = Append(b, c)
             /\ held' = held \cup {Append(b, c)}
             /\ flight' = flight
  BY <1>3, <1>5 DEF Sent, Effect, Fits
<1>6. ASSUME Refused(m, TRUE) \/ Unsent(TRUE) \/ Lost(m, TRUE)
      PROVE  /\ remote' = remote
             /\ held' = held
             /\ flight' = flight \/ flight' = flight \cup {m}
  BY <1>6 DEF Refused, Unsent, Lost
<1>7. CASE Sent(m, TRUE) /\ act = "ref"
  BY <1>1, <1>3, <1>4, <1>7 DEF IInv, Types, Safe
<1>8. CASE Sent(m, TRUE) /\ act = "commit"
  BY <1>2, <1>3, <1>5, <1>8 DEF IInv, Types, Safe
<1>9. CASE Refused(m, TRUE) \/ Unsent(TRUE) \/ Lost(m, TRUE)
  <2>1. ~Accepted(c, act) \/ Append(b, c) \in held' \/ act = "ref"
    BY <1>5 DEF Accepted
  <2> HIDE DEF m
  <2>2. \A x \in flight' : x.act = "commit" => ~In(x.call, x.base)
    BY <1>1, <1>3, <1>6, <1>9 DEF IInv, Safe
  <2>3. flight' \in SUBSET Requests /\ flight' \subseteq flight \cup {m}
    BY <1>3, <1>6, <1>9 DEF IInv, Types
  <2>4. remote' = remote /\ held' = held
    BY <1>6, <1>9
  <2> QED BY <2>1, <2>2, <2>3, <2>4 DEF IInv, Types, Safe, m
<1> QED BY <1>7, <1>8, <1>9 DEF Asked

\* The chains after such a step, and after one that has appended nothing.
LEMMA MovedChains ==
  ASSUME IInv, NEW c \in Calls, NEW act \in {"ref", "commit"}, NEW at \in Places,
         NEW o \in {call[c].oid, Append(call[c].base, c)},
         Moved(c, act, at, o), call[c].at \notin Resting
  PROVE  /\ Grown({c})
         /\ o = call[c].oid /\ (act = "ref" \/ Local) => Grown({})
<1> DEFINE b == call[c].base
<1>1. /\ call \in [Calls -> Records] /\ ~In(c, b) /\ b \in Chains
  BY DEF IInv, Types, Safe, Standing, Chains
<1>2. \A d \in Calls : call'[d].base = call[d].base
  BY <1>1 DEF Moved, Records
<1>3. \A d \in Calls : call'[d].oid = IF d = c THEN o ELSE call[d].oid
  BY <1>1 DEF Moved, Records
<1>4. \A s \in {m.base : m \in flight'} : s \in Chains
  BY <1>1, AskedOfTheForge DEF Moved, Request, Chains
<1>5. \A s \in held' \ {Absent} : s \in Chains \/ (act = "commit" /\ s = Append(b, c))
  BY <1>1, AskedOfTheForge DEF Moved, Chains
<1>6. ws' = ws
  BY DEF Moved, Still
<1>7. \A s \in {call'[d].base : d \in Calls} \cup {ws'.head} : s \in Chains
  BY <1>2, <1>6 DEF Chains
<1>8. \A s \in {call'[d].oid : d \in Calls} : s \in Chains \/ s = o
  BY <1>3 DEF Chains
<1>9. call[c].oid \in Chains
  BY DEF Chains
<1>10. \A s \in Chains' : \/ s \in {m.base : m \in flight'} \/ s \in held' \ {Absent}
                          \/ s \in {call'[d].base : d \in Calls} \cup {ws'.head}
                          \/ s \in {call'[d].oid : d \in Calls}
  BY DEF Chains
<1>11. \A s \in Chains' : s \in Chains \/ s = Append(b, c)
  BY <1>4, <1>5, <1>7, <1>8, <1>9, <1>10
<1>12. Grown({c})
  BY <1>1, <1>11 DEF Grown
<1>13. ASSUME o = call[c].oid, act = "ref" \/ Local PROVE Grown({})
  <2>1. \A s \in held' \ {Absent} : s \in Chains
    BY <1>5, <1>13 DEF Local, Chains
  <2> QED BY <1>4, <1>7, <1>8, <1>9, <1>10, <1>13, <2>1 DEF Grown
<1> QED BY <1>12, <1>13

\* Such a step keeps the invariant, if the call comes to where it may be.
LEMMA MovedKeeps ==
  ASSUME IInv, NEW c \in Calls, NEW act \in {"ref", "commit"}, NEW at \in Places,
         NEW o \in {call[c].oid, Append(call[c].base, c)},
         Moved(c, act, at, o), call[c].at \notin Resting,
         at \in PlacesOf(kind) \ {"new"},
         at \in {"land", "reset", "done"} =>
           o = Append(call[c].base, c) /\ o \in held',
         at \in Before => /\ call[c].at \in Before
                          /\ o = call[c].oid
                          /\ act = "ref" \/ Local
  PROVE  IInv'
<1>1. /\ call \in [Calls -> Records] /\ call[c].base \in Chain
      /\ ~In(c, call[c].base) /\ call[c].tries # 0
  BY DEF IInv, Types, Safe, Standing, Records, Resting
<1>2. /\ Append(call[c].base, c) \in Chain
      /\ Append(call[c].base, c) # <<>>
      /\ Append(call[c].base, c)[Len(Append(call[c].base, c))] = c
  BY <1>1, Appending
<1>3. o \in Chain
  BY <1>1, <1>2 DEF Records
<1>4. /\ call' \in [Calls -> Records]
      /\ call'[c] = [call[c] EXCEPT !.at = at, !.oid = o]
      /\ \A d \in Calls \ {c} : call'[d] = call[d]
  BY <1>1, <1>3 DEF Moved, Records
<1>5. ws' = ws /\ kind' = kind /\ others' = others
  BY DEF Moved, Still
<1>6. Types'
  BY <1>4, <1>5, AskedOfTheForge DEF Moved, IInv, Types
<1>7. held \subseteq held'
  BY AskedOfTheForge DEF Moved
<1>8. ASSUME NEW d \in Calls PROVE Standing(d)'
  <2>1. CASE d # c
    <3>1. Standing(d)
      BY DEF IInv, Safe
    <3> QED BY <1>4, <1>5, <1>7, <2>1, <3>1 DEF Standing
  <2>2. CASE d = c
    <3>1. Standing(c)
      BY DEF IInv, Safe
    <3>2. /\ call'[c].at = at /\ call'[c].oid = o /\ call'[c].tries = call[c].tries
          /\ call'[c].base = call[c].base /\ call'[c].seen = call[c].seen
      BY <1>1, <1>4 DEF Records
    <3>3. call[c].base = call[c].seen.head
      BY <3>1 DEF Standing
    <3> QED BY <1>1, <1>2, <1>5, <2>2, <3>2, <3>3 DEF Standing, Resting
  <2> QED BY <2>1, <2>2
<1>9. ASSUME NEW d \in Calls PROVE Untouched(d)'
  <2>1. SUFFICES ASSUME call'[d].at \in Before, call'[d].tries <= 1
                 PROVE  Fresh(d)'
    BY DEF Untouched
  <2>2. CASE d # c
    <3>1. Fresh(d)
      BY <1>4, <2>1, <2>2 DEF IInv, Safe, Untouched
    <3>2. Grown({c}) /\ {c} \in SUBSET (Calls \cup {Foreign}) /\ d \in Calls \ {c}
      BY <2>2, MovedChains
    <3>3. \A s \in Chains' : ~In(d, s)
      BY <3>1, <3>2, GrownFresh DEF Fresh
    <3>4. \A m \in flight' : m.call = d => m.act = "ref"
      BY <2>2, <3>1, AskedOfTheForge DEF Fresh, Moved, Request
    <3> QED BY <3>3, <3>4 DEF Fresh
  <2>3. CASE d = c
    <3>1. call'[c].at = at /\ call'[c].tries = call[c].tries
      BY <1>1, <1>4 DEF Records
    <3>2. call[c].at \in Before /\ o = call[c].oid /\ (act = "ref" \/ Local)
      BY <2>1, <2>3, <3>1
    <3>3. Fresh(c)
      BY <2>1, <2>3, <3>1, <3>2 DEF IInv, Safe, Untouched
    <3>4. Grown({}) /\ {} \in SUBSET (Calls \cup {Foreign}) /\ c \in Calls \ {}
      BY <3>2, MovedChains
    <3>5. \A s \in Chains' : ~In(c, s)
      BY <3>3, <3>4, GrownFresh DEF Fresh
    <3>6. flight' \subseteq flight \cup {Request(c, "ref")}
      BY <3>2, AskedOfTheForge DEF Moved, Local
    <3>7. \A m \in flight' : m.call = c => m.act = "ref"
      BY <3>3, <3>6 DEF Fresh, Request
    <3> QED BY <2>3, <3>5, <3>7 DEF Fresh
  <2> QED BY <2>2, <2>3
<1>10. \A s \in Chains' : Once(s)
  BY MovedChains, GrownOnce
<1>11. /\ remote' # Absent => remote' \in held'
       /\ \A m \in flight' : m.act = "commit" => ~In(m.call, m.base)
  BY AskedOfTheForge DEF Moved
<1>12. /\ \A d \in ws'.dirty : ~In(d, ws'.head)
       /\ kind' # "delegated" => ws'.dirty = Calls
  BY <1>5 DEF IInv, Safe
<1> QED BY <1>6, <1>8, <1>9, <1>10, <1>11, <1>12 DEF IInv, Safe

-----------------------------------------------------------------------------
(* The actions of a call that are such steps.                               *)

LEMMA ThePlaces ==
  ASSUME IInv, NEW c \in Calls
  PROVE  /\ call[c].at \in PlacesOf(kind)
         /\ PlacesOf(kind) \subseteq Places
         /\ kind \in {"managed", "plain", "delegated"}
BY DEF IInv, Safe, Standing, Types, PlacesOf, Places, Kinds

\* A call goes on with nothing in hand.
LEMMA GoesOn ==
  ASSUME IInv, NEW c \in Calls, NEW act \in {"ref", "commit"},
         NEW at \in PlacesOf(kind) \ {"new", "land", "reset", "done"},
         Asked(c, act), Still, To(c, at), call[c].at \notin Resting,
         at \in Before => call[c].at \in Before /\ (act = "ref" \/ Local)
  PROVE  IInv'
<1>1. call \in [Calls -> Records] /\ at \in Places
  BY ThePlaces DEF IInv, Types
<1>2. [call EXCEPT ![c].at = at] = [call EXCEPT ![c].at = at, ![c].oid = call[c].oid]
  BY <1>1 DEF Records
<1>3. Moved(c, act, at, call[c].oid)
  BY <1>2 DEF Moved, To
<1> QED BY <1>1, <1>3, MovedKeeps

\* A call has found or been told that its commit is on the branch.
LEMMA HasIt ==
  ASSUME IInv, NEW c \in Calls, NEW act \in {"ref", "commit"},
         NEW at \in PlacesOf(kind) \cap {"land", "done"},
         Asked(c, act), Still, Has(c, at), call[c].at \notin Resting,
         Append(call[c].base, c) \in held'
  PROVE  IInv'
<1>1. at \in Places /\ at \notin Before /\ at # "new"
  BY ThePlaces DEF Before
<1>2. Moved(c, act, at, Append(call[c].base, c))
  BY DEF Moved, Has
<1> QED BY <1>1, <1>2, MovedKeeps

LEMMA AskedNobody == Local => \A c \in Calls, act \in {"ref", "commit"} : Asked(c, act)
BY DEF Local, Asked, Unsent

\* A commit that a read finds on the branch has been on it.
LEMMA ExactIsHeld ==
  ASSUME IInv, NEW c \in Calls, Outcome(c) = "exact", Local
  PROVE  Append(call[c].base, c) \in held'
BY DEF IInv, Safe, Outcome, Exact, Local

\* A commit that the forge accepts is on the branch.
LEMMA AcceptedIsHeld ==
  ASSUME IInv, NEW c \in Calls, Sent(Request(c, "commit"), TRUE), call[c].at \notin Resting
  PROVE  Append(call[c].base, c) \in held'
BY AskedOfTheForge DEF Accepted, Asked

LEMMA CreateKeeps == ASSUME IInv, NEW c \in Calls, Create(c) PROVE IInv'
<1>1. call[c].at = "create" /\ Still /\ kind = "managed"
  BY ThePlaces DEF Create, At, PlacesOf, OfPlain, OfDelegated
<1>2. /\ Asked(c, "ref")
      /\ To(c, "commit") \/ To(c, "whose") \/ To(c, "unsent")
  BY DEF Create, Asked, Sent, Refused, Unsent, Lost
<1>3. \A at \in {"commit", "whose", "unsent"} : /\ at \in PlacesOf(kind)
                                              /\ at \notin {"new", "land", "reset", "done"}
  BY <1>1 DEF PlacesOf, OfManaged
<1>4. "create" \in Before /\ "create" \notin Resting
  BY DEF Before, Resting
<1> QED BY <1>1, <1>2, <1>3, <1>4, GoesOn

LEMMA WhoseKeeps == ASSUME IInv, NEW c \in Calls, Whose(c) PROVE IInv'
<1>1. call[c].at = "whose" /\ Local /\ Still /\ kind = "managed"
  BY ThePlaces DEF Whose, At, PlacesOf, OfPlain, OfDelegated
<1>2. "whose" \notin Resting /\ Asked(c, "ref") /\ {"done", "failed"} \subseteq PlacesOf(kind)
  BY <1>1, AskedNobody DEF Resting, PlacesOf, OfManaged
<1>3. CASE Outcome(c) = "exact" /\ Has(c, Published)
  BY <1>1, <1>2, <1>3, ExactIsHeld, HasIt DEF Published
<1>4. CASE To(c, "failed")
  BY <1>1, <1>2, <1>4, GoesOn DEF Before
<1> QED BY <1>3, <1>4 DEF Whose

LEMMA EstablishKeeps == ASSUME IInv, NEW c \in Calls, Establish(c) PROVE IInv'
<1>1. call[c].at = "establish" /\ Local /\ Still /\ kind = "delegated"
  BY ThePlaces DEF Establish, At, PlacesOf, OfPlain, OfManaged
<1>2. /\ "establish" \notin Resting /\ "establish" \in Before /\ Asked(c, "ref")
      /\ {"land", "commit", "root", "failed"} \subseteq PlacesOf(kind)
  BY <1>1, AskedNobody DEF Resting, Before, PlacesOf, OfDelegated
<1>3. CASE Outcome(c) = "exact" /\ Has(c, "land")
  BY <1>1, <1>2, <1>3, ExactIsHeld, HasIt
<1>4. CASE To(c, "commit") \/ To(c, "root") \/ To(c, "failed")
  BY <1>1, <1>2, <1>4, GoesOn
<1> QED BY <1>3, <1>4 DEF Establish

LEMMA RootKeeps == ASSUME IInv, NEW c \in Calls, Root(c) PROVE IInv'
<1>1. call[c].at \in {"root", "reroot"} /\ Still /\ kind = "delegated"
  BY ThePlaces DEF Root, At, PlacesOf, OfPlain, OfManaged
<1>2. /\ Asked(c, "ref")
      /\ To(c, "rooted") \/ To(c, "failed") \/ To(c, "unsure")
  BY DEF Root, Asked, Sent, Refused, Unsent, Lost
<1>3. \A at \in {"rooted", "failed", "unsure"} : /\ at \in PlacesOf(kind)
                                               /\ at \notin {"new", "land", "reset", "done"}
  BY <1>1 DEF PlacesOf, OfDelegated
<1>4. call[c].at \in Before /\ call[c].at \notin Resting
  BY <1>1 DEF Before, Resting
<1> QED BY <1>1, <1>2, <1>3, <1>4, GoesOn

LEMMA RootedKeeps == ASSUME IInv, NEW c \in Calls, Rooted(c) PROVE IInv'
<1>1. call[c].at \in {"rooted", "unsure"} /\ Local /\ Still /\ kind = "delegated"
  BY ThePlaces DEF Rooted, At, PlacesOf, OfPlain, OfManaged
<1>2. /\ call[c].at \notin Resting /\ call[c].at \in Before /\ Asked(c, "ref")
      /\ {"land", "commit", "reroot", "failed"} \subseteq PlacesOf(kind)
  BY <1>1, AskedNobody DEF Resting, Before, PlacesOf, OfDelegated
<1>3. CASE Outcome(c) = "exact" /\ Has(c, "land")
  BY <1>1, <1>2, <1>3, ExactIsHeld, HasIt
<1>4. CASE To(c, "commit") \/ To(c, "reroot") \/ To(c, "failed")
  BY <1>1, <1>2, <1>4, GoesOn
<1> QED BY <1>3, <1>4 DEF Rooted

\* Where a commit is requested there is a place for who has it.
LEMMA PublishedIsAPlace ==
  ASSUME IInv, NEW c \in Calls, call[c].at \in {"commit", "look", "replay", "last"}
  PROVE  /\ Published \in PlacesOf(kind) \cap {"land", "done"}
         /\ {"look", "replay", "last", "failed", "unsent"} \subseteq PlacesOf(kind)
         /\ call[c].at \notin Resting
<1>1. kind \in {"managed", "delegated"}
  BY ThePlaces DEF PlacesOf, OfPlain
<1> QED BY <1>1 DEF Published, PlacesOf, OfManaged, OfDelegated, Resting

LEMMA CommitKeeps == ASSUME IInv, NEW c \in Calls, Commit(c) PROVE IInv'
<1>1. call[c].at = "commit" /\ Still /\ Asked(c, "commit")
  BY DEF Commit, At, Asked, Sent, Refused, Unsent, Lost
<1>2. \/ Sent(Request(c, "commit"), TRUE) /\ Has(c, Published)
      \/ To(c, "look") \/ (To(c, "unsent") /\ Local)
  BY DEF Commit, Sent, Refused, Unsent, Lost, Local
<1>3. CASE Sent(Request(c, "commit"), TRUE) /\ Has(c, Published)
  BY <1>1, <1>3, AcceptedIsHeld, PublishedIsAPlace, HasIt
<1>4. CASE To(c, "look") \/ (To(c, "unsent") /\ Local)
  BY <1>1, <1>4, PublishedIsAPlace, GoesOn DEF Before
<1> QED BY <1>2, <1>3, <1>4

LEMMA ReplayKeeps == ASSUME IInv, NEW c \in Calls, Replay(c) PROVE IInv'
<1>1. call[c].at = "replay" /\ Still /\ Asked(c, "commit")
  BY DEF Replay, At, Asked, Sent, Refused, Unsent, Lost
<1>2. \/ Sent(Request(c, "commit"), TRUE) /\ Has(c, Published)
      \/ To(c, "last")
  BY DEF Replay, Sent, Refused, Unsent, Lost, Local
<1>3. CASE Sent(Request(c, "commit"), TRUE) /\ Has(c, Published)
  BY <1>1, <1>3, AcceptedIsHeld, PublishedIsAPlace, HasIt
<1>4. CASE To(c, "last")
  BY <1>1, <1>4, PublishedIsAPlace, GoesOn DEF Before
<1> QED BY <1>2, <1>3, <1>4

LEMMA LookKeeps == ASSUME IInv, NEW c \in Calls, Look(c) PROVE IInv'
<1>1. call[c].at = "look" /\ Local /\ Still /\ Asked(c, "ref")
  BY AskedNobody DEF Look, At
<1>2. CASE Outcome(c) = "exact" /\ Has(c, Published)
  BY <1>1, <1>2, ExactIsHeld, PublishedIsAPlace, HasIt
<1>3. CASE To(c, "replay") \/ To(c, "failed")
  BY <1>1, <1>3, PublishedIsAPlace, GoesOn DEF Before
<1> QED BY <1>2, <1>3 DEF Look

LEMMA LastKeeps == ASSUME IInv, NEW c \in Calls, Last(c) PROVE IInv'
<1>1. call[c].at = "last" /\ Local /\ Still /\ Asked(c, "ref")
  BY AskedNobody DEF Last, At
<1>2. CASE Outcome(c) = "exact" /\ Has(c, Published)
  BY <1>1, <1>2, ExactIsHeld, PublishedIsAPlace, HasIt
<1>3. CASE To(c, "failed")
  BY <1>1, <1>3, PublishedIsAPlace, GoesOn DEF Before
<1> QED BY <1>2, <1>3 DEF Last

LEMMA OnlyKeeps == ASSUME IInv, NEW c \in Calls, Only(c) PROVE IInv'
<1>1. call[c].at = "only" /\ Still /\ Asked(c, "commit")
  BY DEF Only, At, Asked, Sent, Refused, Unsent, Lost
<1>2. /\ call[c].at \notin Resting
      /\ {"done", "failed"} \subseteq PlacesOf(kind)
  BY <1>1, ThePlaces DEF PlacesOf, OfPlain, OfManaged, OfDelegated, Resting
<1>3. CASE Sent(Request(c, "commit"), TRUE) /\ Has(c, "done")
  BY <1>1, <1>2, <1>3, AcceptedIsHeld, HasIt
<1>4. CASE To(c, "failed")
  BY <1>1, <1>2, <1>4, GoesOn DEF Before
<1> QED BY <1>3, <1>4 DEF Only, Sent, Refused, Unsent, Lost

LEMMA FetchFruitKeeps == ASSUME IInv, NEW c \in Calls, FetchFruit(c) PROVE IInv'
<1>1. call[c].at = "land" /\ Local /\ Still /\ Asked(c, "ref") /\ kind = "delegated"
  BY AskedNobody, ThePlaces DEF FetchFruit, At, PlacesOf, OfPlain, OfManaged
<1>2. /\ call[c].at \notin Resting
      /\ {"reset", "failed"} \subseteq PlacesOf(kind)
  BY <1>1 DEF PlacesOf, OfDelegated, Resting
<1>3. CASE To(c, "reset")
  <2>1. call[c].oid = Append(call[c].base, c) /\ call[c].oid \in held'
    BY <1>1 DEF IInv, Safe, Standing, Local
  <2>2. call \in [Calls -> Records] /\ "reset" \in Places
    BY <1>2, ThePlaces DEF IInv, Types
  <2>3. [call EXCEPT ![c].at = "reset"] = [call EXCEPT ![c].at = "reset", ![c].oid = call[c].oid]
    BY <2>2 DEF Records
  <2>4. Moved(c, "ref", "reset", call[c].oid)
    BY <1>1, <1>3, <2>3 DEF Moved, To
  <2> QED BY <1>2, <2>1, <2>2, <2>4, MovedKeeps DEF Before
<1>4. CASE To(c, "failed")
  BY <1>1, <1>2, <1>4, GoesOn DEF Before
<1> QED BY <1>3, <1>4 DEF FetchFruit

-----------------------------------------------------------------------------
(* The other actions.                                                      *)

\* A call that a step leaves alone, and that appends nothing in it.
LEMMA LeftAlone ==
  ASSUME IInv, NEW X \in SUBSET (Calls \cup {Foreign}), Grown(X), NEW d \in Calls \ X,
         call'[d].at \in Before => /\ call[d].at \in Before
                                   /\ call'[d].tries = call[d].tries,
         \A m \in flight' : m \in flight \/ m.call # d
  PROVE  Untouched(d)'
<1>1. SUFFICES ASSUME call'[d].at \in Before, call'[d].tries <= 1
               PROVE  Fresh(d)'
  BY DEF Untouched
<1>2. Fresh(d)
  BY <1>1 DEF IInv, Safe, Untouched
<1>3. \A s \in Chains' : ~In(d, s)
  BY <1>2, GrownFresh DEF Fresh
<1> QED BY <1>2, <1>3 DEF Fresh

LEMMA StandsStill ==
  ASSUME IInv, NEW d \in Calls, call'[d] = call[d], kind' = kind, held \subseteq held'
  PROVE  Standing(d)'
BY DEF IInv, Safe, Standing

LEMMA StartKeeps == ASSUME IInv, NEW c \in Calls, Start(c) PROVE IInv'
<1> DEFINE first == CASE kind = "managed" -> "create"
                      [] kind = "plain" -> "only"
                      [] kind = "delegated" /\ c \in ws.dirty -> "establish"
                      [] OTHER -> IF ws.dirty # {} /\ remote = ws.head
                                     /\ ws.head # <<>> /\ ws.head[Len(ws.head)] = c
                                  THEN "done" ELSE "nothing"
           o == IF first = "done" THEN ws.head ELSE <<>>
           r == [at |-> first, base |-> ws.head, seen |-> ws, tries |-> call[c].tries + 1,
                 oid |-> o]
<1>1. /\ call[c].at \in {"new", "failed", "unsent"}
      /\ kind # "delegated" => call[c].at = "new"
      /\ Local /\ Still
  BY DEF Start, At
<1>2. call' = [call EXCEPT ![c] = r]
  BY DEF Start
<1>3. /\ first \in {"create", "only", "establish", "done", "nothing"}
      /\ first \in PlacesOf(kind)
      /\ first \in {"create", "only", "establish"} => c \in ws.dirty
      /\ first = "done" => ws.head = remote /\ ws.head # <<>> /\ ws.head[Len(ws.head)] = c
  <2>1. CASE kind = "managed"
    BY <2>1 DEF IInv, Safe, PlacesOf, OfManaged
  <2>2. CASE kind = "plain"
    BY <2>2 DEF IInv, Safe, PlacesOf, OfPlain
  <2>3. CASE kind = "delegated" /\ c \in ws.dirty
    BY <2>3 DEF PlacesOf, OfDelegated
  <2>4. CASE kind = "delegated" /\ c \notin ws.dirty
    BY <2>4 DEF PlacesOf, OfDelegated
  <2> QED BY <2>1, <2>2, <2>3, <2>4, ThePlaces
<1>4. /\ call \in [Calls -> Records] /\ call[c].tries \in Nat
      /\ ws \in Trees /\ ws.head \in Chain
  BY DEF IInv, Types, Records, Trees
<1> HIDE DEF first
<1>5. o \in Chain /\ (o = <<>> \/ o = ws.head)
  BY <1>4, TheEmptyChain
<1>6. r \in Records
  BY <1>3, <1>4, <1>5, ThePlaces DEF Records
<1>7. /\ call' \in [Calls -> Records]
      /\ call'[c] = r
      /\ \A d \in Calls \ {c} : call'[d] = call[d]
  BY <1>2, <1>4, <1>6
<1>8. /\ remote' = remote /\ held' = held /\ flight' = flight
      /\ kind' = kind /\ ws' = ws /\ others' = others
  BY <1>1 DEF Local, Still
<1>9. Types'
  BY <1>7, <1>8 DEF IInv, Types
<1>10. Grown({})
  <2>1. r.base = ws.head /\ (r.oid = <<>> \/ r.oid = ws.head)
    BY <1>5
  <2> HIDE DEF r
  <2>2. \A d \in Calls : /\ call'[d].base = call[d].base \/ call'[d].base = ws.head
                         /\ \/ call'[d].oid = call[d].oid \/ call'[d].oid = ws.head
                            \/ call'[d].oid = <<>>
    BY <1>7, <2>1
  <2> QED BY <1>8, <2>2 DEF Grown, Chains
<1>11. \A s \in Chains' : Once(s)
  BY <1>10, GrownOnce
<1>12. ASSUME NEW d \in Calls PROVE Standing(d)' /\ Untouched(d)'
  <2>1. CASE d # c
    BY <1>7, <1>8, <1>10, <2>1, StandsStill, LeftAlone
  <2>2. CASE d = c
    <3>1. Standing(c)'
      <4>1. r.at = first /\ r.base = ws.head /\ r.seen.head = ws.head
            /\ r.tries = call[c].tries + 1
            /\ r.oid = IF first = "done" THEN ws.head ELSE <<>>
        OBVIOUS
      <4>2. c \in ws.dirty => ~In(c, ws.head)
        BY DEF IInv, Safe
      <4>3. first = "done" => ws.head \in held
        BY <1>3, <1>4, FruitPublicationAssumption DEF IInv, Safe, Chain
      <4> HIDE DEF r
      <4> QED BY <1>3, <1>4, <1>7, <1>8, <4>1, <4>2, <4>3 DEF Standing, Resting
    <3>2. Untouched(c)'
      <4>1. SUFFICES ASSUME call'[c].tries <= 1
                     PROVE  Fresh(c)'
        BY DEF Untouched
      <4>2. call[c].tries = 0
        BY <1>4, <1>7, <4>1
      <4>3. call[c].at = "new"
        BY <4>2 DEF IInv, Safe, Standing
      <4>4. Fresh(c)
        BY <4>2, <4>3 DEF IInv, Safe, Untouched, Before
      <4>5. \A s \in Chains' : ~In(c, s)
        BY <1>10, <4>4, GrownFresh DEF Fresh
      <4> QED BY <1>8, <4>4, <4>5 DEF Fresh
    <3> QED BY <2>2, <3>1, <3>2
  <2> QED BY <2>1, <2>2
<1> QED BY <1>8, <1>9, <1>11, <1>12 DEF IInv, Safe

LEMMA ResetKeeps == ASSUME IInv, NEW c \in Calls, Reset(c) PROVE IInv'
<1>1. /\ call[c].at = "reset" /\ Local /\ kind' = kind /\ others' = others
      /\ kind = "delegated"
  BY ThePlaces DEF Reset, At, PlacesOf, OfPlain, OfManaged
<1>2. CASE ~Unmoved(c)
  <2>1. Still /\ Asked(c, "ref") /\ To(c, "failed")
    BY <1>1, <1>2, AskedNobody DEF Reset, Still
  <2>2. "failed" \in PlacesOf(kind) /\ call[c].at \notin Resting
    BY <1>1 DEF PlacesOf, OfDelegated, Resting
  <2> QED BY <2>1, <2>2, GoesOn DEF Before
<1>3. CASE Unmoved(c)
  <2> DEFINE o == call[c].oid
  <2>1. ws' = [ws EXCEPT !.head = o, !.dirty = @ \ {c}] /\ To(c, "done")
    BY <1>3 DEF Reset
  <2>2. call \in [Calls -> Records] /\ ws \in Trees /\ "done" \in Places
    BY DEF IInv, Types, Places, OfPlain
  <2>3. Standing(c)
    BY DEF IInv, Safe
  <2>4. /\ call[c].base = ws.head /\ ~In(c, ws.head)
        /\ o = Append(ws.head, c) /\ o \in held /\ o # <<>> /\ o[Len(o)] = c
        /\ o \in Chain /\ call[c].tries # 0
    BY <1>1, <1>3, <2>2, <2>3 DEF Standing, Resting, Unmoved, Records
  <2>5. /\ call' \in [Calls -> Records]
        /\ call'[c] = [call[c] EXCEPT !.at = "done"]
        /\ \A d \in Calls \ {c} : call'[d] = call[d]
    BY <2>1, <2>2 DEF To, Records
  <2>6. /\ ws' \in Trees
        /\ ws'.head = o /\ ws'.dirty = ws.dirty \ {c}
    BY <2>1, <2>2, <2>4 DEF Trees
  <2>7. remote' = remote /\ held' = held /\ flight' = flight
    BY <1>1 DEF Local
  <2>8. Types'
    BY <1>1, <2>5, <2>6, <2>7 DEF IInv, Types
  <2>9. \A d \in Calls : call'[d].base = call[d].base /\ call'[d].oid = call[d].oid
    BY <2>2, <2>5 DEF Records
  <2>10. Grown({})
    BY <2>6, <2>7, <2>9 DEF Grown, Chains
  <2>11. \A s \in Chains' : Once(s)
    BY <2>10, GrownOnce
  <2>12. \A d \in ws'.dirty : ~In(d, ws'.head)
    <3>1. ASSUME NEW d \in ws'.dirty PROVE ~In(d, ws'.head)
      <4>1. d # c /\ d \in Calls /\ ~In(d, ws.head)
        BY <2>2, <2>6 DEF IInv, Safe, Trees
      <4>2. ws.head \in Chain /\ c \in Calls \cup {Foreign}
        BY <2>2 DEF Trees
      <4> QED BY <2>4, <2>6, <4>1, <4>2, Appending
    <3> QED BY <3>1
  <2>13. ASSUME NEW d \in Calls PROVE Standing(d)' /\ Untouched(d)'
    <3>1. CASE d # c
      BY <1>1, <2>5, <2>7, <2>10, <3>1, StandsStill, LeftAlone
    <3>2. CASE d = c
      <4>1. /\ call'[c].at = "done" /\ call'[c].oid = o
            /\ call'[c].tries = call[c].tries
        BY <2>2, <2>5 DEF Records
      <4>2. Standing(c)'
        BY <1>1, <2>4, <2>7, <4>1 DEF Standing, Resting, PlacesOf, OfDelegated
      <4>3. Untouched(c)'
        BY <4>1 DEF Untouched, Before
      <4> QED BY <3>2, <4>2, <4>3
    <3> QED BY <3>1, <3>2
  <2> QED BY <1>1, <2>7, <2>8, <2>11, <2>12, <2>13 DEF IInv, Safe
<1> QED BY <1>2, <1>3

\* A late request of a call takes effect, or finds that it no longer can.
LEMMA LandKeeps == ASSUME IInv, NEW m \in flight, Land(m) PROVE IInv'
<1>1. /\ m \in Requests /\ m.call \in Calls /\ m.act \in {"ref", "commit"}
      /\ m.base \in Chain /\ m.base \in Chains
  BY DEF IInv, Types, Requests, Chain, Chains
<1>2. /\ kind' = kind /\ ws' = ws /\ call' = call /\ others' = others
      /\ flight' = flight \ {m}
  BY DEF Land
<1>3. m.act = "commit" => ~In(m.call, m.base)
  BY DEF IInv, Safe
<1>4. /\ Append(m.base, m.call) \in Chain
      /\ Append(m.base, m.call) # Absent
      /\ m.base # Absent
  BY <1>1, Appending, FruitPublicationAssumption DEF Chain
<1>5. \/ remote' = remote /\ held' = held
      \/ m.act = "ref" /\ remote' = m.base /\ held' = held \cup {m.base}
      \/ /\ m.act = "commit" /\ remote' = Append(m.base, m.call)
         /\ held' = held \cup {Append(m.base, m.call)}
  BY <1>1 DEF Land, Fits, Effect
<1> DEFINE X == IF m.act = "commit" THEN {m.call} ELSE {}
<1>6. X \in SUBSET (Calls \cup {Foreign})
  BY <1>1
<1>7. Grown(X)
  <2>1. \A s \in held' \ {Absent} : \/ s \in Chains
                                    \/ m.act = "commit" /\ s = Append(m.base, m.call)
    BY <1>1, <1>5 DEF Chains
  <2>2. \A s \in Chains' \ held' : s \in Chains
    BY <1>2 DEF Chains
  <2>3. \A s \in Chains' : s # Absent \/ s \in Chains
    BY <1>2 DEF Chains
  <2>4. \A s \in Chains' : s \in Chains \/ (m.act = "commit" /\ s = Append(m.base, m.call))
    BY <2>1, <2>2, <2>3
  <2> QED BY <1>1, <1>3, <2>4 DEF Grown
<1>8. Types'
  BY <1>1, <1>2, <1>4, <1>5 DEF IInv, Types
<1>9. held \subseteq held' /\ (remote' # Absent => remote' \in held')
  BY <1>5 DEF IInv, Safe
<1>10. \A s \in Chains' : Once(s)
  BY <1>6, <1>7, GrownOnce
<1>11. ASSUME NEW d \in Calls PROVE Standing(d)' /\ Untouched(d)'
  <2>1. Standing(d)'
    BY <1>2, <1>9, StandsStill
  <2>2. CASE d \notin X
    BY <1>2, <1>6, <1>7, <2>1, <2>2, LeftAlone
  <2>3. CASE d \in X
    <3>1. ~Fresh(d)
      BY <2>3 DEF Fresh
    <3>2. Untouched(d)'
      BY <1>2, <3>1 DEF Untouched, IInv, Safe
    <3> QED BY <2>1, <3>2
  <2> QED BY <2>2, <2>3
<1>12. \A x \in flight' : x.act = "commit" => ~In(x.call, x.base)
  BY <1>2 DEF IInv, Safe
<1>13. /\ \A d \in ws'.dirty : ~In(d, ws'.head)
       /\ kind' # "delegated" => ws'.dirty = Calls
  BY <1>2 DEF IInv, Safe
<1> QED BY <1>8, <1>9, <1>10, <1>11, <1>12, <1>13 DEF IInv, Safe

\* What others append to the branch is none of the changes.
LEMMA PushKeeps == ASSUME IInv, Push PROVE IInv'
<1>1. /\ remote \in Chain /\ remote \in held /\ remote # Absent
      /\ remote' = Append(remote, Foreign) /\ held' = held \cup {remote'}
      /\ kind' = kind /\ ws' = ws /\ call' = call /\ flight' = flight
      /\ others' \in Nat
  BY DEF Push, Other, IInv, Types, Safe
<1>2. remote' \in Chain /\ remote' # Absent
  BY <1>1, Appending
<1>3. Foreign \notin Calls /\ {Foreign} \in SUBSET (Calls \cup {Foreign})
  BY FruitPublicationAssumption
<1>4. Grown({Foreign})
  BY <1>1, <1>3 DEF Grown, Chains
<1>5. \A s \in Chains' : Once(s)
  BY <1>3, <1>4, GrownOnce
<1>6. ASSUME NEW d \in Calls PROVE Standing(d)' /\ Untouched(d)'
  BY <1>1, <1>3, <1>4, StandsStill, LeftAlone
<1>7. Types'
  BY <1>1, <1>2 DEF IInv, Types
<1> QED BY <1>1, <1>5, <1>6, <1>7 DEF IInv, Safe

\* Nothing else of the others makes a chain, nor does the end of the process.
LEMMA RestKeeps ==
  ASSUME IInv, Delete \/ Edit \/ Dies \/ UNCHANGED vars
  PROVE  IInv'
<1>1. /\ kind' = kind /\ held' = held /\ flight' = flight
      /\ others' \in Nat
      /\ remote' = remote \/ remote' = Absent
  BY DEF Delete, Edit, Dies, Other, Local, Still, vars, IInv, Types
<1>2. ws' \in Trees /\ ws'.head = ws.head /\ ws'.dirty = ws.dirty
  BY DEF Delete, Edit, Dies, Other, Local, Still, vars, IInv, Types, Trees
<1>3. call \in [Calls -> Records] /\ "failed" \in Places
  BY DEF IInv, Types, Places, OfPlain
<1>4. /\ call' \in [Calls -> Records]
      /\ \A d \in Calls : \/ call'[d] = call[d]
                          \/ Busy(d) /\ call'[d] = [call[d] EXCEPT !.at = "failed"]
  BY <1>3 DEF Delete, Edit, Dies, Other, vars, Records
<1>5. \A d \in Calls : /\ call'[d].base = call[d].base /\ call'[d].oid = call[d].oid
                       /\ call'[d].seen = call[d].seen /\ call'[d].tries = call[d].tries
                       /\ call'[d].at = call[d].at \/ (call'[d].at = "failed" /\ Busy(d))
  BY <1>3, <1>4 DEF Records
<1>6. Grown({})
  BY <1>1, <1>2, <1>5 DEF Grown, Chains
<1>7. \A s \in Chains' : Once(s)
  BY <1>6, GrownOnce
<1>8. ASSUME NEW d \in Calls PROVE Standing(d)' /\ Untouched(d)'
  <2>1. Untouched(d)'
    BY <1>1, <1>5, <1>6, LeftAlone DEF Before
  <2>2. Standing(d)'
    <3>1. Standing(d)
      BY DEF IInv, Safe
    <3>2. CASE call'[d].at = call[d].at
      BY <1>1, <1>5, <3>1, <3>2 DEF Standing
    <3>3. CASE call'[d].at = "failed" /\ Busy(d)
      <4>1. call[d].tries # 0
        BY <3>1, <3>3 DEF Standing, Busy
      <4> QED BY <1>1, <1>5, <3>3, <4>1
              DEF Standing, Resting, PlacesOf, OfManaged, OfPlain, OfDelegated
    <3> QED BY <1>5, <3>2, <3>3
  <2> QED BY <2>1, <2>2
<1>9. Types'
  BY <1>1, <1>2, <1>4 DEF IInv, Types
<1> QED BY <1>1, <1>2, <1>7, <1>8, <1>9 DEF IInv, Safe

-----------------------------------------------------------------------------
(* The theorems.                                                           *)

LEMMA InitIInv == Init => IInv
<1> SUFFICES ASSUME Init PROVE IInv
  OBVIOUS
<1> DEFINE r == [at |-> "new", base |-> <<>>, seen |-> ws, oid |-> <<>>, tries |-> 0]
<1>1. /\ kind \in Kinds /\ flight = {} /\ others = 0
      /\ remote \in {<<>>, Absent} /\ held = {remote}
      /\ ws = [head |-> <<>>, dirty |-> Calls, version |-> 0]
      /\ call = [c \in Calls |-> r]
  BY DEF Init
<1>2. ws \in Trees /\ ws.head = <<>> /\ ws.dirty = Calls
  BY <1>1, TheEmptyChain DEF Trees
<1>3. "new" \in Places /\ \A k : "new" \in PlacesOf(k)
  BY DEF Places, OfManaged, OfPlain, OfDelegated, PlacesOf
<1>4. r \in Records
  BY <1>2, <1>3, TheEmptyChain DEF Records
<1>5. Types
  BY <1>1, <1>2, <1>4, TheEmptyChain DEF Types
<1>6. \A s \in Chains : s = <<>>
  BY <1>1, <1>2 DEF Chains
<1>7. \A s \in Chains : Once(s) /\ \A x : ~In(x, s)
  BY <1>6, TheEmptyChain
<1>8. ASSUME NEW c \in Calls PROVE Standing(c) /\ Untouched(c)
  <2>1. call[c] = r
    BY <1>1
  <2>2. Standing(c)
    BY <1>3, <2>1 DEF Standing, Resting
  <2>3. Untouched(c)
    BY <1>1, <1>7 DEF Untouched, Fresh
  <2> QED BY <2>2, <2>3
<1>9. \A c \in ws.dirty : ~In(c, ws.head)
  BY <1>2, TheEmptyChain
<1> QED BY <1>1, <1>2, <1>5, <1>7, <1>8, <1>9 DEF IInv, Safe

LEMMA StepIInv == IInv /\ [Next]_vars => IInv'
<1> SUFFICES ASSUME IInv, [Next]_vars PROVE IInv'
  OBVIOUS
<1>1. ASSUME NEW c \in Calls,
             \/ Start(c) \/ Create(c) \/ Whose(c) \/ Establish(c) \/ Root(c)
             \/ Rooted(c) \/ Commit(c) \/ Look(c) \/ Replay(c) \/ Last(c)
             \/ Only(c) \/ FetchFruit(c) \/ Reset(c)
      PROVE  IInv'
  BY <1>1, StartKeeps, CreateKeeps, WhoseKeeps, EstablishKeeps, RootKeeps, RootedKeeps,
     CommitKeeps, LookKeeps, ReplayKeeps, LastKeeps, OnlyKeeps, FetchFruitKeeps, ResetKeeps
<1>2. ASSUME NEW m \in flight, Land(m) PROVE IInv'
  BY <1>2, LandKeeps
<1>3. CASE Push
  BY <1>3, PushKeeps
<1>4. CASE Delete \/ Edit \/ Dies \/ UNCHANGED vars
  BY <1>4, RestKeeps
<1> QED BY <1>1, <1>2, <1>3, <1>4 DEF Next

THEOREM Invariance == Spec => []IInv
BY InitIInv, StepIInv, PTL DEF Spec

\* The types of FruitPublication: what the branch has been is chains of commits
\* or no branch, and a call is in one of its places with a chain to build on.
THEOREM TypeCorrectness == Spec => []Types
<1>1. IInv => Types
  BY DEF IInv
<1> QED BY <1>1, Invariance, PTL

LEMMA OnceIsCounted ==
  ASSUME NEW s \in Chain, Once(s), NEW c \in Calls
  PROVE  Cardinality({i \in DOMAIN s : s[i] = c}) <= 1
<1> DEFINE P == {i \in DOMAIN s : s[i] = c}
<1>1. DOMAIN s = 1..Len(s)
  BY DEF Chain
<1>2. \A i, j \in P : i = j
  BY <1>1 DEF Once
<1>3. CASE P = {}
  BY <1>3, FS_EmptySet
<1>4. ASSUME NEW i \in P PROVE Cardinality(P) = 1
  <2>1. P = {i}
    BY <1>2, <1>4
  <2> HIDE DEF P
  <2> QED BY <2>1, FS_Singleton
<1> HIDE DEF P
<1>5. Cardinality(P) <= 1
  BY <1>3, <1>4, FS_EmptySet
<1> QED BY <1>5 DEF P

\* FruitPublication.PublishedOnce: whatever requests and answers are lost, a
\* change is on the forge's branch at most once, a commit that is reported is
\* there, and "no Fruit commit was accepted" is said only when none was or can
\* be (publishAPIFruit, runDelegatedAPICommit).
THEOREM ChangesArePublishedOnce == Spec => []PublishedOnce
<1>1. IInv => PublishedOnce
  <2> SUFFICES ASSUME IInv PROVE PublishedOnce
    OBVIOUS
  <2>1. NoChangeTwice
    <3>1. ASSUME remote # Absent PROVE remote \in Chain /\ Once(remote)
      BY <3>1 DEF IInv, Types, Safe, Chains
    <3> QED BY <3>1, OnceIsCounted DEF NoChangeTwice
  <2>2. ReportedIsPublished
    BY DEF IInv, Safe, Standing, ReportedIsPublished, At
  <2>3. NoneMeansNone
    <3> SUFFICES ASSUME NEW c \in Calls, At(c, "unsent"), call[c].tries = 1
                 PROVE  /\ \A m \in flight : m.call = c => m.act = "ref"
                        /\ \A h \in held : h # Absent => \A i \in DOMAIN h : h[i] # c
      BY DEF NoneMeansNone
    <3>1. Fresh(c)
      BY DEF IInv, Safe, Untouched, Before, At
    <3>2. ASSUME NEW h \in held, h # Absent, NEW i \in DOMAIN h PROVE h[i] # c
      <4>1. h \in Chain /\ h \in Chains
        BY <3>2 DEF IInv, Types, Chains
      <4>2. DOMAIN h = 1..Len(h)
        BY <4>1 DEF Chain
      <4> QED BY <3>1, <3>2, <4>1, <4>2 DEF Fresh, In
    <3> QED BY <3>1, <3>2 DEF Fresh
  <2> QED BY <2>1, <2>2, <2>3 DEF PublishedOnce
<1> QED BY <1>1, Invariance, PTL

-----------------------------------------------------------------------------
(***************************************************************************)
(* Checkouts.  A call holds the locks that its place says and no other     *)
(* (Locking); so that what it read of the refs under their lock is moved   *)
(* meanwhile only by somebody who fetches, and never back (Current), and   *)
(* what it took in is under its own marker (Marked).                       *)
(***************************************************************************)
RefSteps == {"prepare", "stage", "read", "import", "imported", "update", "finish",
             "startFetch", "startRead", "refresh", "reset"}
GitSteps == {"clone", "refs", "refresh", "reset"}
Stations == RefSteps \cup GitSteps \cup {"idle", "git", "status", "resolve", "working", "started"}
Fetches == [at : Stations, kind : Purposes \cup {"none"}, asked : Nat, staged : Nat, old : Nat]

Numbered == /\ upstream \in Nat \ {0} /\ tracking \in Nat /\ head \in Nat
            /\ fetch \in [Callers -> Fetches]

Locking(c) == /\ fetch[c].at \in RefSteps => refLock = c
              /\ refLock = c => fetch[c].at \in RefSteps
              /\ gitLock = c => fetch[c].at \in GitSteps
              /\ gitLock = c \/ fetch[c].at = "git" => fetch[c].kind \in {"run", "track", "look"}

\* A call between its refresh and its start, and any that is about to move the
\* checkout, find it no older than was asked for; a run with a branch still asks.
Current(c) ==
  /\ fetch[c].asked <= upstream
  /\ fetch[c].kind = "run" => fetch[c].asked # 0 /\ fetch[c].at # "startFetch"
  /\ fetch[c].at \in {"startRead", "reset"} => tracking >= fetch[c].asked
  /\ fetch[c].at = "resolve" =>
       /\ head >= fetch[c].asked
       /\ \A d \in Callers : fetch[d].at = "reset" => tracking >= fetch[c].asked
  /\ fetch[c].at = "started" => fetch[c].staged >= fetch[c].asked
  /\ fetch[c].at \in {"git", "status", "refs", "startFetch", "startRead"} => fetch[c].staged = 0

Marked(c) == fetch[c].at = "imported" =>
               fetch[c].staged \in objs /\ <<c, fetch[c].staged>> \in keeps

FetchInv == Numbered /\ \A c \in Callers : Locking(c) /\ Current(c) /\ Marked(c)

LEMMA FetchInit == Repository!Init => FetchInv
<1> SUFFICES ASSUME Repository!Init PROVE FetchInv
  OBVIOUS
<1>1. Numbered
  BY DEF Repository!Init, Numbered, Repository!None, Repository!Idle, Fetches, Stations
<1>2. ASSUME NEW c \in Callers PROVE Locking(c) /\ Current(c) /\ Marked(c)
  <2>1. fetch[c].at = "idle" /\ fetch[c].kind = "none" /\ fetch[c].asked = 0 /\ upstream = 1
    BY DEF Repository!Init, Repository!Idle, Repository!None
  <2>2. refLock # c /\ gitLock # c
    BY FreeIsNobody DEF Repository!Init
  <2> QED
    BY <2>1, <2>2 DEF Locking, Current, Marked, RefSteps, GitSteps
<1> QED
  BY <1>1, <1>2 DEF FetchInv

\* What a step may do to a call that does not take it.  The remote moves on; the
\* refs move to the remote, or are moved by the holder of their lock; the checkout
\* moves to the remote or to the refs as a refresh left them.
Harmless(d) ==
  /\ fetch'[d] = fetch[d]
  /\ upstream' >= upstream
  /\ \/ tracking' \in {tracking, upstream}
     \/ refLock # d /\ \A e \in Callers : fetch'[e].at # "reset"
  /\ \/ head' \in {head, upstream}
     \/ head' = tracking /\ \E e \in Callers : fetch[e].at = "reset"
  /\ \A e \in Callers : fetch'[e].at = "reset" => fetch[e].at = "reset" \/ tracking' = upstream
  /\ refLock' = refLock \/ (refLock # d /\ refLock' # d)
  /\ gitLock' = d => gitLock = d
  /\ \A x \in Nat : <<d, x>> \in keeps /\ x \in objs => <<d, x>> \in keeps' /\ x \in objs'

LEMMA OthersAreKept ==
  ASSUME FetchInv, Numbered', NEW d \in Callers, Harmless(d)
  PROVE  Locking(d)' /\ Current(d)' /\ Marked(d)'
<1> USE DEF Harmless
<1>0. Locking(d) /\ Current(d) /\ Marked(d) /\ fetch[d] \in Fetches /\ fetch'[d] = fetch[d]
  BY DEF FetchInv, Numbered
<1>n. /\ upstream \in Nat /\ tracking \in Nat /\ head \in Nat /\ fetch[d].asked \in Nat
      /\ upstream' \in Nat /\ tracking' \in Nat /\ head' \in Nat /\ fetch[d].staged \in Nat
  BY <1>0 DEF FetchInv, Numbered, Fetches
<1>1. Locking(d)'
  BY <1>0 DEF Locking
<1>2. Marked(d)'
  BY <1>0, <1>n DEF Marked
<1>3. fetch'[d].asked <= upstream'
  BY <1>0, <1>n DEF Current
<1>4. fetch[d].at \in {"startRead", "reset"} => tracking' >= fetch[d].asked
  <2>1. fetch[d].at \in {"startRead", "reset"} => refLock = d
    BY <1>0 DEF Locking, RefSteps
  <2> QED
    BY <1>0, <1>n, <2>1 DEF Current
<1>5. ASSUME fetch[d].at = "resolve"
      PROVE  head' >= fetch[d].asked
  <2>1. head >= fetch[d].asked /\ upstream >= fetch[d].asked
    BY <1>0, <1>5 DEF Current
  <2>2. (\E e \in Callers : fetch[e].at = "reset") => tracking >= fetch[d].asked
    BY <1>0, <1>5 DEF Current
  <2> QED
    BY <2>1, <2>2, <1>n
<1>6. ASSUME fetch[d].at = "resolve", NEW e \in Callers, fetch'[e].at = "reset"
      PROVE  tracking' >= fetch[d].asked
  <2>1. CASE tracking' = upstream
    BY <1>0, <2>1 DEF Current
  <2>2. CASE tracking' # upstream
    <3>1. fetch[e].at = "reset" /\ tracking' = tracking
      BY <1>6, <2>2
    <3> QED
      BY <1>0, <1>6, <3>1 DEF Current
  <2> QED
    BY <2>1, <2>2
<1>7. Current(d)'
  BY <1>0, <1>3, <1>4, <1>5, <1>6 DEF Current
<1> QED
  BY <1>1, <1>2, <1>7

\* One call takes a step to a place that is as it says.
LEMMA FetchSteps ==
  ASSUME FetchInv, NEW c \in Callers, Numbered',
         Locking(c)' /\ Current(c)' /\ Marked(c)',
         \A d \in Callers \ {c} : Harmless(d)
  PROVE  FetchInv'
<1>1. ASSUME NEW d \in Callers, d # c PROVE Locking(d)' /\ Current(d)' /\ Marked(d)'
  BY <1>1, OthersAreKept
<1> QED
  BY <1>1 DEF FetchInv

LEMMA FetchAround ==
  ASSUME FetchInv,
         \/ Repository!Publish \/ Repository!Collect \/ Repository!OutsideFetch
         \/ Repository!Edit \/ Repository!Commit \/ UNCHANGED repository
  PROVE  FetchInv'
<1> USE DEF Repository!Publish, Repository!Collect, Repository!OutsideFetch, Repository!Edit,
            Repository!Commit, repository, Repository!Pull, Repository!repo, Repository!locks,
            Repository!checkout
<1>1. fetch' = fetch /\ refLock' = refLock /\ gitLock' = gitLock /\ head' = head /\ keeps' = keeps
  OBVIOUS
<1>2. upstream' \in {upstream, upstream + 1} /\ tracking' \in {tracking, upstream}
  OBVIOUS
<1>3. Numbered'
  BY <1>1, <1>2 DEF FetchInv, Numbered
<1>4. ASSUME NEW d \in Callers, NEW x \in Nat, <<d, x>> \in keeps, x \in objs PROVE x \in objs'
  <2>1. x \in {k[2] : k \in keeps}
    BY <1>4
  <2> QED
    BY <1>4, <2>1
<1>5. \A d \in Callers : Harmless(d)
  BY <1>1, <1>2, <1>4 DEF Harmless, FetchInv, Numbered
<1> QED
  BY <1>3, <1>5, OthersAreKept DEF FetchInv
\* The locks move between the call and nobody.
OwnLocks(c) == /\ refLock' = refLock \/ {refLock, refLock'} \in SUBSET {c, "free"}
               /\ gitLock' \in {gitLock, c, "free"}

LEMMA LocksOfOthers ==
  ASSUME NEW c \in Callers, NEW d \in Callers \ {c}, OwnLocks(c)
  PROVE  /\ refLock' = refLock \/ (refLock # d /\ refLock' # d)
         /\ gitLock' = d => gitLock = d
BY FreeIsNobody DEF OwnLocks

\* A call goes elsewhere, and touches nothing but its locks.
LEMMA FetchQuiet ==
  ASSUME FetchInv, NEW c \in Callers, NEW r \in Fetches, fetch' = [fetch EXCEPT ![c] = r],
         r.at # "reset", UNCHANGED <<upstream, tracking, head, objs, keeps>>, OwnLocks(c),
         Locking(c)', Current(c)', Marked(c)'
  PROVE  FetchInv'
<1>1. /\ fetch' \in [Callers -> Fetches] /\ fetch'[c] = r
      /\ \A d \in Callers \ {c} : fetch'[d] = fetch[d]
  BY DEF FetchInv, Numbered
<1>2. Numbered'
  BY <1>1 DEF FetchInv, Numbered
<1>3. \A d \in Callers \ {c} : Harmless(d)
  BY <1>1, LocksOfOthers DEF Harmless, FetchInv, Numbered
<1> QED
  BY <1>2, <1>3, FetchSteps

\* A return gives back what the call held.
LEMMA FetchReturn ==
  ASSUME FetchInv, NEW c \in Callers, Repository!Return(c),
         UNCHANGED <<upstream, tracking, head, objs, keeps>>
  PROVE  FetchInv'
<1>1. /\ Repository!Idle \in Fetches /\ Repository!Idle.at = "idle"
      /\ Repository!Idle.asked = 0 /\ Repository!Idle.kind = "none"
  BY DEF Repository!Idle, Repository!None, Fetches, Stations
<1>2. fetch' = [fetch EXCEPT ![c] = Repository!Idle] /\ fetch'[c] = Repository!Idle
  BY DEF Repository!Return, FetchInv, Numbered
<1>3. OwnLocks(c) /\ refLock' # c /\ gitLock' # c
  BY FreeIsNobody DEF Repository!Return, Repository!Unlock, Repository!Free, OwnLocks
<1>4. Locking(c)' /\ Marked(c)'
  BY <1>1, <1>2, <1>3 DEF Locking, Marked, RefSteps
<1>5. Current(c)'
  BY <1>1, <1>2 DEF Current, FetchInv, Numbered
<1> QED
  BY <1>1, <1>2, <1>3, <1>4, <1>5, FetchQuiet

\* What is known of a call and of the repository.
LEMMA FetchKnown ==
  ASSUME FetchInv, NEW c \in Callers
  PROVE  /\ fetch[c] \in Fetches /\ fetch \in [Callers -> Fetches]
         /\ Locking(c) /\ Current(c) /\ Marked(c)
         /\ upstream \in Nat \ {0} /\ tracking \in Nat /\ head \in Nat
         /\ c # "free"
BY FreeIsNobody DEF FetchInv, Numbered

LEMMA FetchAsks ==
  ASSUME FetchInv, NEW c \in Callers,
         \/ \E k \in Purposes : Repository!Ask(c, k)
         \/ Repository!LockRefs(c) \/ Repository!Refuse(c) \/ Repository!Status(c)
         \/ Repository!LockGit(c)
  PROVE  FetchInv'
<1> USE DEF Repository!repo, Repository!checkout, Repository!locks
<1>k. /\ fetch[c] \in Fetches /\ fetch \in [Callers -> Fetches]
      /\ Locking(c) /\ Current(c) /\ Marked(c)
      /\ upstream \in Nat \ {0} /\ tracking \in Nat /\ head \in Nat
      /\ c # "free"
  BY FetchKnown
<1>1. ASSUME NEW k \in Purposes, Repository!Ask(c, k)
      PROVE  FetchInv'
  <2> DEFINE at == CASE k \in {"run", "track", "look"} -> "git" [] k = "own" -> "status" [] OTHER -> "refs"
             r == [Repository!Idle EXCEPT !.kind = k, !.asked = upstream, !.at = at]
  <2>1. at \in {"git", "status", "refs"}
    OBVIOUS
  <2>2. fetch' = [fetch EXCEPT ![c] = r]
    BY <1>1 DEF Repository!Ask
  <2> HIDE DEF at
  <2>3. r \in Fetches /\ r.at = at /\ r.asked = upstream /\ r.staged = 0 /\ fetch'[c] = r
        /\ r.kind = k
    BY <1>k, <2>1, <2>2 DEF Repository!Idle, Repository!None, Fetches, Stations, RefSteps, GitSteps
  <2> HIDE DEF r
  <2>4. UNCHANGED <<upstream, tracking, head, objs, keeps, refLock, gitLock>> /\ fetch[c].at = "idle"
    BY <1>1 DEF Repository!Ask
  <2>k. at = "git" => k \in {"run", "track", "look"}
    BY DEF at
  <2>5. Locking(c)' /\ Marked(c)' /\ OwnLocks(c)
    BY <1>k, <2>k, <2>1, <2>3, <2>4 DEF Locking, Marked, OwnLocks, RefSteps, GitSteps
  <2>6. Current(c)'
    BY <1>k, <2>1, <2>3, <2>4 DEF Current
  <2> QED
    BY <2>1, <2>2, <2>3, <2>4, <2>5, <2>6, FetchQuiet
<1>2. CASE Repository!LockRefs(c)
  <2> DEFINE at == CASE fetch[c].kind = "fetch" -> "prepare" [] fetch[c].kind = "start" -> "startFetch"
                     [] OTHER -> "refresh"
             r == [fetch[c] EXCEPT !.at = at]
  <2>1. at \in {"prepare", "startFetch", "refresh"}
    OBVIOUS
  <2>2. fetch' = [fetch EXCEPT ![c] = r]
    BY <1>2, <1>k DEF Repository!LockRefs, Repository!At
  <2>k. fetch[c].kind = "run" => at # "startFetch"
    OBVIOUS
  <2> HIDE DEF at
  <2>3. r \in Fetches /\ r.at = at /\ r.kind = fetch[c].kind /\ r.asked = fetch[c].asked /\ r.staged = fetch[c].staged
        /\ fetch'[c] = r
    BY <1>k, <2>1, <2>2 DEF Fetches, Stations, RefSteps
  <2> HIDE DEF r
  <2>4. UNCHANGED <<upstream, tracking, head, objs, keeps, gitLock>> /\ fetch[c].at = "refs"
        /\ refLock = "free" /\ refLock' = c
    BY <1>2 DEF Repository!LockRefs, Repository!Take
  <2>5. Locking(c)' /\ Marked(c)' /\ OwnLocks(c)
    <3>1. at = "refresh" \/ gitLock # c
      BY <1>k DEF Locking, at
    <3> QED
    BY <1>k, <2>1, <2>3, <2>4, <3>1 DEF Locking, Marked, OwnLocks, RefSteps, GitSteps
  <2>6. Current(c)'
    BY <1>k, <2>k, <2>1, <2>3, <2>4 DEF Current
  <2> QED
    BY <2>1, <2>2, <2>3, <2>4, <2>5, <2>6, FetchQuiet
<1>3. CASE Repository!Refuse(c)
  BY <1>3, FetchReturn DEF Repository!Refuse, Repository!Fail
<1>4. CASE Repository!Status(c)
  <2>1. CASE work = "changed"
    BY <1>4, <2>1, FetchReturn DEF Repository!Status, Repository!Fail
  <2>2. CASE work # "changed"
    <3> DEFINE r == [fetch[c] EXCEPT !.at = "refs"]
    <3>1. fetch' = [fetch EXCEPT ![c] = r]
      BY <1>4, <1>k, <2>2 DEF Repository!Status, Repository!At
    <3>2. r \in Fetches /\ r.at = "refs" /\ r.kind = fetch[c].kind /\ r.asked = fetch[c].asked /\ r.staged = fetch[c].staged
          /\ fetch'[c] = r
      BY <1>k, <3>1 DEF Fetches, Stations, GitSteps
    <3> HIDE DEF r
    <3>3. UNCHANGED <<upstream, tracking, head, objs, keeps, refLock, gitLock>>
          /\ fetch[c].at = "status"
      BY <1>4, <2>2 DEF Repository!Status
    <3>4. Locking(c)' /\ Marked(c)' /\ OwnLocks(c)
      BY <1>k, <3>2, <3>3 DEF Locking, Marked, OwnLocks, RefSteps, GitSteps
    <3>5. Current(c)'
      BY <1>k, <3>2, <3>3 DEF Current
    <3> QED
      BY <3>1, <3>2, <3>3, <3>4, <3>5, FetchQuiet
  <2> QED
    BY <2>1, <2>2
<1>5. CASE Repository!LockGit(c)
  <2> DEFINE at == IF head = 0 THEN "clone" ELSE "refs"
             r == [fetch[c] EXCEPT !.at = at]
  <2>1. at \in {"clone", "refs"}
    OBVIOUS
  <2>2. fetch' = [fetch EXCEPT ![c] = r]
    BY <1>5, <1>k DEF Repository!LockGit, Repository!At, Repository!None
  <2> HIDE DEF at
  <2>3. r \in Fetches /\ r.at = at /\ r.kind = fetch[c].kind /\ r.asked = fetch[c].asked /\ r.staged = fetch[c].staged
        /\ fetch'[c] = r
    BY <1>k, <2>1, <2>2 DEF Fetches, Stations, GitSteps
  <2> HIDE DEF r
  <2>4. UNCHANGED <<upstream, tracking, head, objs, keeps, refLock>> /\ fetch[c].at = "git"
        /\ gitLock' = c
    BY <1>5 DEF Repository!LockGit
  <2>5. Locking(c)' /\ Marked(c)' /\ OwnLocks(c)
    BY <1>k, <2>1, <2>3, <2>4 DEF Locking, Marked, OwnLocks, RefSteps, GitSteps
  <2>6. Current(c)'
    BY <1>k, <2>1, <2>3, <2>4 DEF Current
  <2> QED
    BY <2>1, <2>2, <2>3, <2>4, <2>5, <2>6, FetchQuiet
<1> QED
  BY <1>1, <1>2, <1>3, <1>4, <1>5

\* The staged copy is made and the refs are read, under their lock.
LEMMA FetchStages ==
  ASSUME FetchInv, NEW c \in Callers,
         Repository!Prepare(c) \/ Repository!Stage(c) \/ Repository!Read(c)
  PROVE  FetchInv'
<1> USE DEF Repository!repo, Repository!checkout, Repository!locks
<1>k. /\ fetch[c] \in Fetches /\ fetch \in [Callers -> Fetches]
      /\ Locking(c) /\ Current(c) /\ Marked(c)
      /\ upstream \in Nat \ {0} /\ tracking \in Nat /\ head \in Nat
      /\ c # "free"
  BY FetchKnown
<1>1. PICK at \in {"stage", "read", "import"}, s \in Nat, o \in Nat :
        fetch' = [fetch EXCEPT ![c] = [fetch[c] EXCEPT !.at = at, !.staged = s, !.old = o]]
  <2>1. CASE Repository!Prepare(c)
    <3>1. fetch' = [fetch EXCEPT ![c] = [fetch[c] EXCEPT !.at = "stage", !.staged = fetch[c].staged,
                                                         !.old = fetch[c].old]]
      BY <1>k, <2>1 DEF Repository!Prepare, Repository!At, Fetches
    <3> QED
      BY <1>k, <3>1 DEF Fetches
  <2>2. CASE Repository!Stage(c)
    <3>1. fetch' = [fetch EXCEPT ![c] = [fetch[c] EXCEPT !.at = "read", !.staged = upstream,
                                                         !.old = fetch[c].old]]
      BY <1>k, <2>2 DEF Repository!Stage, Fetches
    <3> QED
      BY <1>k, <3>1 DEF Fetches
  <2>3. CASE Repository!Read(c)
    <3>1. fetch' = [fetch EXCEPT ![c] = [fetch[c] EXCEPT !.at = "import", !.staged = fetch[c].staged,
                                                         !.old = tracking]]
      BY <1>k, <2>3 DEF Repository!Read, Fetches
    <3> QED
      BY <1>k, <3>1 DEF Fetches
  <2> QED
    BY <2>1, <2>2, <2>3
<1> DEFINE r == [fetch[c] EXCEPT !.at = at, !.staged = s, !.old = o]
<1>2. r \in Fetches /\ r.at = at /\ r.kind = fetch[c].kind /\ r.asked = fetch[c].asked /\ fetch'[c] = r
  BY <1>k, <1>1 DEF Fetches, Stations, RefSteps
<1>3. fetch' = [fetch EXCEPT ![c] = r]
  BY <1>1
<1> HIDE DEF r
<1>4. UNCHANGED <<upstream, tracking, head, objs, keeps, refLock, gitLock>>
      /\ fetch[c].at \in {"prepare", "stage", "read"}
  BY DEF Repository!Prepare, Repository!Stage, Repository!Read
<1>5. Locking(c)' /\ Marked(c)' /\ OwnLocks(c)
  BY <1>k, <1>2, <1>4 DEF Locking, Marked, OwnLocks, RefSteps, GitSteps
<1>6. Current(c)'
  BY <1>k, <1>2, <1>4 DEF Current
<1> QED
  BY <1>2, <1>3, <1>4, <1>5, <1>6, FetchQuiet

\* What the call waits for comes, and it goes.
LEMMA FetchLeaves ==
  ASSUME FetchInv, NEW c \in Callers,
         \/ Repository!StartRead(c) \/ Repository!Started(c)
         \/ Repository!Resolve(c) \/ Repository!Leave(c)
  PROVE  FetchInv'
<1> USE DEF Repository!repo, Repository!checkout, Repository!locks
<1>k. /\ fetch[c] \in Fetches /\ fetch \in [Callers -> Fetches]
      /\ Locking(c) /\ Current(c) /\ Marked(c)
      /\ upstream \in Nat \ {0} /\ tracking \in Nat /\ head \in Nat
      /\ c # "free"
  BY FetchKnown
<1>1. CASE Repository!Started(c)
  BY <1>1, FetchReturn DEF Repository!Started
<1>2. CASE Repository!Leave(c)
  BY <1>2, FetchReturn DEF Repository!Leave
<1>3. CASE Repository!StartRead(c)
  <2> DEFINE s == IF fetch[c].staged = 0 THEN tracking ELSE fetch[c].staged
             r == [fetch[c] EXCEPT !.at = "started", !.staged = s]
  <2>0. fetch[c].at = "startRead" /\ fetch[c].staged = 0
    BY <1>k, <1>3 DEF Repository!StartRead, Current
  <2>1. fetch' = [fetch EXCEPT ![c] = r] /\ s = tracking
    BY <1>k, <1>3, <2>0 DEF Repository!StartRead, Repository!None
  <2> HIDE DEF s
  <2>2. r \in Fetches /\ r.at = "started" /\ r.staged = tracking /\ r.asked = fetch[c].asked
        /\ r.kind = fetch[c].kind /\ fetch'[c] = r
    BY <1>k, <2>1 DEF Fetches, Stations
  <2> HIDE DEF r
  <2>3. UNCHANGED <<upstream, tracking, head, objs, keeps>>
    BY <1>3 DEF Repository!StartRead
  <2>4. OwnLocks(c) /\ refLock' # c /\ gitLock' # c
    BY <1>3, FreeIsNobody DEF Repository!StartRead, Repository!Unlock, Repository!Free, OwnLocks
  <2>5. Locking(c)' /\ Marked(c)'
    BY <2>2, <2>4 DEF Locking, Marked, RefSteps
  <2>6. Current(c)'
    BY <1>k, <2>0, <2>2, <2>3 DEF Current
  <2> QED
    BY <2>1, <2>2, <2>3, <2>4, <2>5, <2>6, FetchQuiet
<1>4. CASE Repository!Resolve(c)
  <2> DEFINE r == [fetch[c] EXCEPT !.at = "started", !.staged = head]
  <2>0. fetch[c].at = "resolve"
    BY <1>4 DEF Repository!Resolve
  <2>1. fetch' = [fetch EXCEPT ![c] = r]
    BY <1>k, <1>4 DEF Repository!Resolve
  <2>2. r \in Fetches /\ r.at = "started" /\ r.staged = head /\ r.asked = fetch[c].asked
        /\ r.kind = fetch[c].kind /\ fetch'[c] = r
    BY <1>k, <2>1 DEF Fetches, Stations
  <2> HIDE DEF r
  <2>3. UNCHANGED <<upstream, tracking, head, objs, keeps, refLock, gitLock>>
    BY <1>4 DEF Repository!Resolve
  <2>5. Locking(c)' /\ Marked(c)' /\ OwnLocks(c)
    BY <1>k, <2>0, <2>2, <2>3 DEF Locking, Marked, OwnLocks, RefSteps, GitSteps
  <2>6. Current(c)'
    BY <1>k, <2>0, <2>2, <2>3 DEF Current
  <2> QED
    BY <2>1, <2>2, <2>3, <2>5, <2>6, FetchQuiet
<1> QED
  BY <1>1, <1>2, <1>3, <1>4

\* A call that moves something: it is somewhere else after, and all it moves is
\* moved as the others can bear.
LEMMA FetchMoves ==
  ASSUME FetchInv, NEW c \in Callers, NEW r \in Fetches, fetch' = [fetch EXCEPT ![c] = r],
         upstream' = upstream, tracking' \in Nat, head' \in Nat, OwnLocks(c),
         r.at = "reset" => tracking' = upstream,
         \/ tracking' \in {tracking, upstream}
         \/ refLock = c /\ r.at # "reset",
         \/ head' \in {head, upstream}
         \/ head' = tracking /\ fetch[c].at = "reset",
         \A d \in Callers \ {c}, x \in Nat :
            <<d, x>> \in keeps /\ x \in objs => <<d, x>> \in keeps' /\ x \in objs',
         Locking(c)', Current(c)', Marked(c)'
  PROVE  FetchInv'
<1>1. /\ fetch' \in [Callers -> Fetches] /\ fetch'[c] = r
      /\ \A d \in Callers \ {c} : fetch'[d] = fetch[d]
  BY DEF FetchInv, Numbered
<1>2. Numbered'
  BY <1>1 DEF FetchInv, Numbered
<1>3. ASSUME NEW d \in Callers \ {c} PROVE Harmless(d)
  <2>1. fetch'[d] = fetch[d] /\ upstream' >= upstream
    BY <1>1 DEF FetchInv, Numbered
  <2>2. \/ tracking' \in {tracking, upstream}
        \/ refLock # d /\ \A e \in Callers : fetch'[e].at # "reset"
    <3>1. CASE refLock = c /\ r.at # "reset"
      <4>1. \A e \in Callers \ {c} : fetch[e].at # "reset"
        BY <3>1 DEF FetchInv, Locking, RefSteps
      <4> QED
        BY <1>1, <3>1, <4>1
    <3> QED
      BY <3>1
  <2>3. \/ head' \in {head, upstream}
        \/ head' = tracking /\ \E e \in Callers : fetch[e].at = "reset"
    OBVIOUS
  <2>4. \A e \in Callers : fetch'[e].at = "reset" => fetch[e].at = "reset" \/ tracking' = upstream
    BY <1>1
  <2>4a. tracking' = upstream => tracking' = upstream'
    OBVIOUS
  <2>5. \A x \in Nat : <<d, x>> \in keeps /\ x \in objs => <<d, x>> \in keeps' /\ x \in objs'
    OBVIOUS
  <2> QED
    BY <2>1, <2>2, <2>3, <2>4, <2>5, LocksOfOthers DEF Harmless
<1> QED
  BY <1>2, <1>3, <1>1, FetchSteps
\* The pack comes in under the marker of its call.
LEMMA FetchImports ==
  ASSUME FetchInv, NEW c \in Callers, Repository!Import(c) \/ Repository!Finish(c)
  PROVE  FetchInv'
<1> USE DEF Repository!repo, Repository!checkout, Repository!locks
<1>k. /\ fetch[c] \in Fetches /\ fetch \in [Callers -> Fetches]
      /\ Locking(c) /\ Current(c) /\ Marked(c)
      /\ upstream \in Nat \ {0} /\ tracking \in Nat /\ head \in Nat
      /\ c # "free"
  BY FetchKnown
<1>s. fetch[c].staged \in Nat
  BY <1>k DEF Fetches
<1>r. /\ Repository!Idle \in Fetches /\ Repository!Idle.at = "idle"
      /\ Repository!Idle.asked = 0 /\ Repository!Idle.kind = "none"
  BY DEF Repository!Idle, Repository!None, Fetches, Stations
<1>q. ASSUME Repository!Return(c), UNCHANGED <<upstream, tracking, head>>,
             \A d \in Callers \ {c}, x \in Nat :
               <<d, x>> \in keeps /\ x \in objs => <<d, x>> \in keeps' /\ x \in objs'
      PROVE  FetchInv'
  <2>1. fetch' = [fetch EXCEPT ![c] = Repository!Idle] /\ fetch'[c] = Repository!Idle
    BY <1>k, <1>q DEF Repository!Return
  <2>2. OwnLocks(c) /\ refLock' # c /\ gitLock' # c
    BY <1>q, FreeIsNobody DEF Repository!Return, Repository!Unlock, Repository!Free, OwnLocks
  <2>3. Locking(c)' /\ Marked(c)'
    BY <1>r, <2>1, <2>2 DEF Locking, Marked, RefSteps
  <2>4. Current(c)'
    BY <1>k, <1>r, <1>q, <2>1 DEF Current
  <2>5. tracking' \in Nat /\ head' \in Nat
    BY <1>k, <1>q
  <2> QED
    BY <1>q, <1>r, <2>1, <2>2, <2>3, <2>4, <2>5, FetchMoves
<1>1. CASE Repository!Finish(c)
  BY <1>1, <1>q DEF Repository!Finish
<1>2. CASE Repository!Import(c) /\ Repository!Fail(c)
  <2>1. \A d \in Callers \ {c}, x \in Nat :
          <<d, x>> \in keeps /\ x \in objs => <<d, x>> \in keeps' /\ x \in objs'
    BY <1>2 DEF Repository!Import
  <2> QED
    BY <1>2, <1>q, <2>1 DEF Repository!Import, Repository!Fail
<1>3. ASSUME Repository!Import(c), NEW at \in {"update", "imported"}, Repository!At(c, at),
             UNCHANGED Repository!locks, at = "imported" => <<c, fetch[c].staged>> \in keeps',
             fetch[c].staged \in objs'
      PROVE  FetchInv'
  <2> DEFINE r == [fetch[c] EXCEPT !.at = at]
  <2>1. fetch' = [fetch EXCEPT ![c] = r]
    BY <1>3, <1>k DEF Repository!At
  <2>2. r \in Fetches /\ r.at = at /\ r.kind = fetch[c].kind /\ r.asked = fetch[c].asked
        /\ r.staged = fetch[c].staged /\ fetch'[c] = r
    BY <1>k, <2>1, <1>3 DEF Fetches, Stations, RefSteps
  <2> HIDE DEF r
  <2>3. UNCHANGED <<upstream, tracking, head, refLock, gitLock>> /\ fetch[c].at = "import"
    BY <1>3 DEF Repository!Import
  <2>4. \A d \in Callers \ {c}, x \in Nat :
          <<d, x>> \in keeps /\ x \in objs => <<d, x>> \in keeps' /\ x \in objs'
    BY <1>3 DEF Repository!Import
  <2>5. Locking(c)' /\ OwnLocks(c)
    BY <1>k, <1>3, <2>2, <2>3 DEF Locking, OwnLocks, RefSteps, GitSteps
  <2>6. Marked(c)'
    BY <1>3, <2>2 DEF Marked
  <2>7. Current(c)'
    BY <1>k, <1>3, <2>2, <2>3 DEF Current
  <2>8. tracking' \in Nat /\ head' \in Nat /\ r.at # "reset"
    BY <1>k, <2>2, <2>3, <1>3
  <2> QED
    BY <2>1, <2>2, <2>3, <2>4, <2>5, <2>6, <2>7, <2>8, FetchMoves
<1>4. CASE Repository!Import(c) /\ fetch[c].staged \in objs
  <2>1. Repository!At(c, "update") /\ UNCHANGED <<objs, Repository!locks>>
    BY <1>4 DEF Repository!Import
  <2> QED
    BY <1>4, <2>1, <1>3
<1>5. CASE Repository!Import(c) /\ ~Repository!Fail(c) /\ fetch[c].staged \notin objs
  <2>1. /\ Repository!At(c, "imported") /\ UNCHANGED Repository!locks
        /\ <<c, fetch[c].staged>> \in keeps' /\ fetch[c].staged \in objs'
    BY <1>5 DEF Repository!Import
  <2> QED
    BY <1>5, <2>1, <1>3
<1> QED
  BY <1>1, <1>2, <1>4, <1>5

\* The refs move to what was staged, or the fetch fails.
LEMMA FetchUpdates ==
  ASSUME FetchInv, NEW c \in Callers, Repository!Update(c)
  PROVE  FetchInv'
<1> USE DEF Repository!repo, Repository!checkout, Repository!locks
<1>k. /\ fetch[c] \in Fetches /\ fetch \in [Callers -> Fetches]
      /\ Locking(c) /\ Current(c) /\ Marked(c)
      /\ upstream \in Nat \ {0} /\ tracking \in Nat /\ head \in Nat
      /\ c # "free"
  BY FetchKnown
<1>s. fetch[c].staged \in Nat
  BY <1>k DEF Fetches
<1>1. CASE tracking = fetch[c].old /\ fetch[c].staged \in objs
  <2> DEFINE r == [fetch[c] EXCEPT !.at = "finish"]
  <2>1. fetch' = [fetch EXCEPT ![c] = r]
    BY <1>1, <1>k DEF Repository!Update, Repository!At
  <2>2. r \in Fetches /\ r.at = "finish" /\ r.kind = fetch[c].kind /\ r.asked = fetch[c].asked
        /\ r.staged = fetch[c].staged /\ fetch'[c] = r
    BY <1>k, <2>1 DEF Fetches, Stations, RefSteps
  <2> HIDE DEF r
  <2>3. UNCHANGED <<upstream, head, objs, keeps, refLock, gitLock>> /\ tracking' = fetch[c].staged
        /\ fetch[c].at \in {"update", "imported"}
    BY <1>1 DEF Repository!Update
  <2>4. Locking(c)' /\ OwnLocks(c) /\ Marked(c)' /\ refLock = c
    BY <1>k, <2>2, <2>3 DEF Locking, Marked, OwnLocks, RefSteps, GitSteps
  <2>5. Current(c)'
    BY <1>k, <2>2, <2>3 DEF Current
  <2>6. tracking' \in Nat /\ head' \in Nat /\ r.at # "reset"
    BY <1>k, <1>s, <2>2, <2>3
  <2> QED
    BY <2>1, <2>2, <2>3, <2>4, <2>5, <2>6, FetchMoves
<1>2. CASE ~(tracking = fetch[c].old /\ fetch[c].staged \in objs)
  BY <1>2, FetchReturn DEF Repository!Update, Repository!Fail
<1> QED
  BY <1>1, <1>2

\* A pull takes the ref to the remote.
LEMMA FetchPulls ==
  ASSUME FetchInv, NEW c \in Callers,
         Repository!StartFetch(c) \/ Repository!Refresh(c) \/ Repository!Clone(c)
  PROVE  FetchInv'
<1> USE DEF Repository!repo, Repository!checkout, Repository!locks
<1>k. /\ fetch[c] \in Fetches /\ fetch \in [Callers -> Fetches]
      /\ Locking(c) /\ Current(c) /\ Marked(c)
      /\ upstream \in Nat \ {0} /\ tracking \in Nat /\ head \in Nat
      /\ c # "free"
  BY FetchKnown
<1>s. fetch[c].staged \in Nat
  BY <1>k DEF Fetches
<1>1. \A d \in Callers \ {c}, x \in Nat :
        <<d, x>> \in keeps /\ x \in objs => <<d, x>> \in keeps' /\ x \in objs'
  BY DEF Repository!StartFetch, Repository!Refresh, Repository!Clone, Repository!Pull
<1>2. CASE Repository!StartFetch(c)
  <2>1. PICK a \in {0, fetch[c].asked} :
          /\ fetch' = [fetch EXCEPT ![c] = [fetch[c] EXCEPT !.at = "startRead", !.asked = a]]
          /\ \/ tracking' = upstream
             \/ a = 0 /\ tracking' = tracking
    <3>1. CASE Repository!Pull
      <4>1. CASE Repository!At(c, "startRead")
        <5>1. fetch' = [fetch EXCEPT ![c] = [fetch[c] EXCEPT !.at = "startRead",
                                                             !.asked = fetch[c].asked]]
          BY <1>k, <4>1 DEF Repository!At, Fetches
        <5> QED
          BY <3>1, <5>1 DEF Repository!Pull
      <4>2. CASE ~Repository!At(c, "startRead")
        <5>1. fetch' = [fetch EXCEPT ![c] = [fetch[c] EXCEPT !.at = "startRead", !.asked = 0]]
          BY <1>2, <1>k, <4>2 DEF Repository!StartFetch, Repository!None, Fetches
        <5> QED
          BY <3>1, <5>1 DEF Repository!Pull
      <4> QED
        BY <4>1, <4>2
    <3>2. CASE ~Repository!Pull
      <4>1. fetch' = [fetch EXCEPT ![c] = [fetch[c] EXCEPT !.at = "startRead", !.asked = 0]]
        BY <1>2, <1>k, <3>2 DEF Repository!StartFetch, Repository!None, Fetches
      <4>2. tracking' = tracking
        BY <1>2, <3>2 DEF Repository!StartFetch
      <4> QED
        BY <4>1, <4>2
    <3> QED
      BY <3>1, <3>2
  <2>a. a \in Nat /\ a <= fetch[c].asked
    BY <1>k DEF Fetches
  <2> DEFINE r == [fetch[c] EXCEPT !.at = "startRead", !.asked = a]
  <2>2. r \in Fetches /\ r.at = "startRead" /\ r.kind = fetch[c].kind /\ r.asked = a
        /\ r.staged = fetch[c].staged /\ fetch'[c] = r
    BY <1>k, <2>1, <2>a DEF Fetches, Stations, RefSteps
  <2>3. fetch' = [fetch EXCEPT ![c] = r]
    BY <2>1
  <2> HIDE DEF r
  <2>4. UNCHANGED <<upstream, head, keeps, refLock, gitLock>> /\ fetch[c].at = "startFetch"
    BY <1>2 DEF Repository!StartFetch
  <2>5. Locking(c)' /\ OwnLocks(c) /\ Marked(c)'
    BY <1>k, <2>2, <2>4 DEF Locking, Marked, OwnLocks, RefSteps, GitSteps
  <2>6. a <= upstream
    BY <1>k, <2>a DEF Current, Fetches
  <2>7. Current(c)'
    BY <1>k, <2>1, <2>2, <2>4, <2>6 DEF Current
  <2>8. tracking' \in Nat /\ head' \in Nat /\ r.at # "reset" /\ tracking' \in {tracking, upstream}
    BY <1>k, <2>1, <2>2, <2>4
  <2> QED
    BY <1>1, <2>2, <2>3, <2>4, <2>5, <2>7, <2>8, FetchMoves
<1>3. CASE Repository!Refresh(c)
  <2> DEFINE r == [fetch[c] EXCEPT !.at = "reset"]
  <2>1. fetch' = [fetch EXCEPT ![c] = r]
    BY <1>3, <1>k DEF Repository!Refresh, Repository!At
  <2>2. r \in Fetches /\ r.at = "reset" /\ r.kind = fetch[c].kind /\ r.asked = fetch[c].asked
        /\ r.staged = fetch[c].staged /\ fetch'[c] = r
    BY <1>k, <2>1 DEF Fetches, Stations, RefSteps
  <2> HIDE DEF r
  <2>3. UNCHANGED <<upstream, head, keeps, refLock, gitLock>> /\ tracking' = upstream
        /\ fetch[c].at = "refresh"
    BY <1>3 DEF Repository!Refresh, Repository!Pull
  <2>4. Locking(c)' /\ OwnLocks(c) /\ Marked(c)'
    BY <1>k, <2>2, <2>3 DEF Locking, Marked, OwnLocks, RefSteps, GitSteps
  <2>5. Current(c)'
    BY <1>k, <2>2, <2>3 DEF Current
  <2>6. tracking' \in Nat /\ head' \in Nat
    BY <1>k, <2>3
  <2> QED
    BY <1>1, <2>1, <2>2, <2>3, <2>4, <2>5, <2>6, FetchMoves
<1>4. CASE Repository!Clone(c)
  <2> DEFINE r == [fetch[c] EXCEPT !.at = "resolve"]
  <2>1. fetch' = [fetch EXCEPT ![c] = r]
    BY <1>4, <1>k DEF Repository!Clone, Repository!At
  <2>2. r \in Fetches /\ r.at = "resolve" /\ r.kind = fetch[c].kind /\ r.asked = fetch[c].asked
        /\ r.staged = fetch[c].staged /\ fetch'[c] = r
    BY <1>k, <2>1 DEF Fetches, Stations
  <2> HIDE DEF r
  <2>3. UNCHANGED <<upstream, keeps, refLock>> /\ tracking' = upstream /\ head' = upstream
        /\ gitLock' = "free" /\ fetch[c].at = "clone"
    BY <1>4 DEF Repository!Clone, Repository!Pull
  <2>4. Locking(c)' /\ OwnLocks(c) /\ Marked(c)'
    BY <1>k, <2>2, <2>3 DEF Locking, Marked, OwnLocks, RefSteps, GitSteps
  <2>5. Current(c)'
    BY <1>k, <2>2, <2>3 DEF Current
  <2>6. tracking' \in Nat /\ head' \in Nat /\ r.at # "reset"
    BY <1>k, <2>2, <2>3
  <2> QED
    BY <1>1, <2>1, <2>2, <2>3, <2>4, <2>5, <2>6, FetchMoves
<1> QED
  BY <1>2, <1>3, <1>4

\* The checkout goes to the refs, both as the refresh left them, or stays; then
\* the call no longer asks for anything.
LEMMA FetchResets ==
  ASSUME FetchInv, NEW c \in Callers, Repository!Reset(c) \/ Repository!ResetMissed(c)
  PROVE  FetchInv'
<1> USE DEF Repository!repo, Repository!checkout, Repository!locks
<1>k. /\ fetch[c] \in Fetches /\ fetch \in [Callers -> Fetches]
      /\ Locking(c) /\ Current(c) /\ Marked(c)
      /\ upstream \in Nat \ {0} /\ tracking \in Nat /\ head \in Nat
      /\ c # "free"
  BY FetchKnown
<1>s. fetch[c].staged \in Nat
  BY <1>k DEF Fetches
<1>a. PICK a \in Nat, h \in Nat :
        /\ \/ a = fetch[c].asked /\ h = tracking
           \/ a = 0 /\ h = head /\ fetch[c].kind # "run"
        /\ fetch' = [fetch EXCEPT ![c] = [fetch[c] EXCEPT
              !.at = IF fetch[c].kind \in {"run", "track"} THEN "resolve" ELSE "working", !.asked = a]]
        /\ head' = h
  <2>1. CASE Repository!Reset(c)
    <3>1. fetch' = [fetch EXCEPT ![c] = [fetch[c] EXCEPT
            !.at = IF fetch[c].kind \in {"run", "track"} THEN "resolve" ELSE "working",
            !.asked = fetch[c].asked]]
      BY <1>k, <2>1 DEF Repository!Reset, Repository!At, Fetches
    <3>2. head' = tracking /\ fetch[c].asked \in Nat
      BY <1>k, <2>1 DEF Repository!Reset, Fetches
    <3> QED
      BY <1>k, <3>1, <3>2
  <2>2. CASE Repository!ResetMissed(c)
    <3>1. fetch' = [fetch EXCEPT ![c] = [fetch[c] EXCEPT
            !.at = IF fetch[c].kind \in {"run", "track"} THEN "resolve" ELSE "working", !.asked = 0]]
      <4>1. fetch[c].kind = "track" <=> fetch[c].kind \in {"run", "track"}
        BY <2>2 DEF Repository!ResetMissed
      <4> QED
        BY <1>k, <2>2, <4>1 DEF Repository!ResetMissed, Repository!None, Fetches
    <3>2. head' = head /\ fetch[c].kind # "run"
      BY <2>2 DEF Repository!ResetMissed
    <3> QED
      BY <1>k, <3>1, <3>2
  <2> QED
    BY <2>1, <2>2
<1> DEFINE at == IF fetch[c].kind \in {"run", "track"} THEN "resolve" ELSE "working"
           r == [fetch[c] EXCEPT !.at = at, !.asked = a]
<1>1. at \in {"resolve", "working"}
  OBVIOUS
<1>2. fetch' = [fetch EXCEPT ![c] = r]
  BY <1>a
<1> HIDE DEF at
<1>3. r \in Fetches /\ r.at = at /\ r.kind = fetch[c].kind /\ r.asked = a
      /\ r.staged = fetch[c].staged /\ fetch'[c] = r
  BY <1>k, <1>1, <1>2 DEF Fetches, Stations
<1> HIDE DEF r
<1>4. UNCHANGED <<upstream, tracking, objs, keeps>> /\ head' = h /\ fetch[c].at = "reset"
  BY <1>a DEF Repository!Reset, Repository!ResetMissed
<1>5. OwnLocks(c) /\ refLock' # c /\ gitLock' # c
  BY FreeIsNobody DEF Repository!Reset, Repository!ResetMissed, Repository!Unlock, Repository!Free, OwnLocks
<1>6. Locking(c)' /\ Marked(c)'
  BY <1>1, <1>3, <1>5 DEF Locking, Marked, RefSteps
<1>7. \A d \in Callers : fetch'[d].at # "reset"
  <2>1. refLock = c
    BY <1>k, <1>4 DEF Locking, RefSteps
  <2>2. \A d \in Callers \ {c} : fetch[d].at # "reset"
    BY <2>1 DEF FetchInv, Locking, RefSteps
  <2>3. \A d \in Callers \ {c} : fetch'[d] = fetch[d]
    BY <1>k, <1>2
  <2> QED
    BY <1>1, <1>3, <2>2, <2>3
<1>8. h >= a /\ a <= upstream
  BY <1>k, <1>4, <1>a DEF Current, Fetches
<1>9. Current(c)'
  BY <1>a, <1>k, <1>1, <1>3, <1>4, <1>7, <1>8 DEF Current
<1>10. tracking' \in Nat /\ head' \in Nat /\ r.at # "reset"
  BY <1>k, <1>1, <1>3, <1>4
<1>11. head' \in {head, upstream} \/ (head' = tracking /\ fetch[c].at = "reset")
  BY <1>4, <1>a
<1> QED
  BY <1>2, <1>3, <1>4, <1>5, <1>6, <1>9, <1>10, <1>11, FetchMoves

LEMMA FetchKept == FetchInv /\ [Repository!Next]_Repository!vars => FetchInv'
<1> SUFFICES ASSUME FetchInv, [Repository!Next]_Repository!vars PROVE FetchInv'
  OBVIOUS
<1>1. ASSUME NEW c \in Callers,
             Repository!Step(c) \/ Repository!Refuse(c) \/ \E k \in Purposes : Repository!Ask(c, k)
      PROVE  FetchInv'
  BY <1>1, FetchAsks, FetchStages, FetchImports, FetchUpdates, FetchPulls, FetchResets, FetchLeaves
     DEF Repository!Step
<1>2. CASE UNCHANGED Repository!vars
  <2>1. UNCHANGED repository
    BY <1>2 DEF Repository!vars, Repository!repo, Repository!checkout, Repository!locks, repository
  <2> QED
    BY <2>1, FetchAround
<1> QED
  BY <1>1, <1>2, FetchAround DEF Repository!Next

LEMMA FetchInvImplies ==
  FetchInv => Repository!StartsAtTheRemote /\ Repository!FetchedIsKept /\ Repository!LocksAreReturned
BY DEF FetchInv, Locking, Current, Marked, RefSteps, GitSteps, Repository!StartsAtTheRemote,
       Repository!FetchedIsKept, Repository!LocksAreReturned, Repository!None

\* Whoever fetches, publishes or collects meanwhile: work starts no older than it
\* was asked for, a pack is not collected before the refs point to it, and a lock
\* is returned with the call.
THEOREM CheckoutsAreInOrderAlone ==
  Repository!Spec => [](/\ Repository!StartsAtTheRemote
                        /\ Repository!FetchedIsKept
                        /\ Repository!LocksAreReturned)
BY FetchInit, FetchKept, FetchInvImplies, PTL DEF Repository!Spec

\* FetchesHold, in the composition the run checks.
THEOREM FetchesHoldAlways == MCSpec => []FetchesHold
<1>1. MCInit => FetchInv
  BY FetchInit DEF MCInit
<1>2. [MCNext]_<<focus, workspaces, delegated, repository, grown, vars>> => [Repository!Next]_Repository!vars
  BY DEF MCNext, repository, Repository!vars, Repository!repo, Repository!checkout, Repository!locks
<1>3. FetchInv => FetchesHold
  BY FetchInvImplies DEF FetchesHold
<1> QED
  BY <1>1, <1>2, <1>3, FetchKept, PTL DEF MCSpec

\* PublishedOnce, in the composition the run checks.
THEOREM ChangesArePublishedOnceAlways == MCSpec => []PublishedOnce
<1>1. MCInit => Init
  BY DEF MCInit
<1>2. [MCNext]_<<focus, workspaces, delegated, repository, grown, vars>> => [Next]_vars
  BY DEF MCNext
<1> QED
  BY <1>1, <1>2, ChangesArePublishedOnce, PTL DEF MCSpec, Spec

-----------------------------------------------------------------------------
(***************************************************************************)
(* Runs that did not overlap give the checkout back (SproutRun), for any   *)
(* number of them, of failed commands and of deaths of the process.        *)
(*                                                                         *)
(* While at most one run is under way, the invariant says where the        *)
(* checkout is at each step of it (Midway): away from the protected branch  *)
(* as long as it grows, with its worktree, its branch and its one stash     *)
(* entry.  Every edit is kept while it is stashed, laid onto the tree and   *)
(* dropped from the stash, but where the tree holds a file of that name; in *)
(* the entry of a run only its own commit has such a one (Entry).  That     *)
(* nothing remains (Tidy) is claimed only where no run reported that it     *)
(* could not undo a step.                                                   *)
(***************************************************************************)
UnderWay(r) == Growth!UnderWay(r)

\* A worktree that grows is there, and one that is there belongs to a run that
\* is to remove it or that died.
Ground ==
    /\ \A r \in host.trees :
         run[r].phase \in {"growing", "turned", "committed", "recorded", "clearing", "dead"}
    /\ Growth!GrowingKeepsItsGround
    /\ deaths = 0 => \A r \in Sprouts : run[r].phase # "dead"

OneAtATime == \A r, q \in Sprouts : UnderWay(r) /\ UnderWay(q) => r = q

\* The new file e is one that the commit of run q has too.
Clash(e, q) == <<e, q>> \in Untracked \X Namesakes

\* Nothing the operator made is a file of the checkout.
Clean(h) == \A e \in h.dirty, q \in h.tip[h.head] : ~Clash(e, q)

\* What cannot be laid down is in the way of the run's own commit.
Entry(r, s, h) ==
    \A e \in Head(h.stash).edits, q \in h.tip[h.head] : Clash(e, q) => q = r /\ s.committed

HasBasis == {"growing", "turned", "committed", "recorded"}

\* Where the checkout is while run r, in state s, is under way.
Away(s) == s.kind = "sprout" /\ s.phase \notin {"idle", "restoring", "dropping", "over", "dead"}

Midway(r, s, h) ==
    /\ Away(s) => h.head # Main /\ s.from \in {Main, r}
    /\ s.kind = "candidate" => s.phase \notin {"recorded", "returning"} /\ ~s.stashed
    /\ s.phase \in {"committed", "recorded"} => s.committed
    /\ s.phase = "recorded" => s.fruit = [branch |-> h.head, state |-> "local-only"]
    /\ s.phase \in {"idle", "isolated", "stashed", "growing", "turned", "committed", "dead"}
         => s.fruit = [branch |-> "none", state |-> "none"]
    /\ s.phase = "returning" => s.from = Main /\ Growth!NoWork(h, r)
    /\ s.phase = "dropping" =>
         /\ h.stash # <<>>
         /\ \A e \in Head(h.stash).edits : e \in h.dirty \/ \E q \in h.tip[h.head] : Clash(e, q)
    /\ s.stashed => Entry(r, s, h)
    /\ s.kind = "sprout" /\ s.phase \in HasBasis => s.basis \subseteq h.tip[h.head]
    /\ s.phase \in {"idle", "over", "dead", "isolated"} => ~s.stashed
    /\ s.phase = "dropping" => s.stashed
    /\ s.fruit.state = "local-only" => s.fruit.branch \in h.exists
    /\ s.fruit.state = "local-only" /\ s.phase # "recorded" => r \in h.tip[s.fruit.branch]

\* The branch a Fruit is kept on is its run's own or that of a run which has ended.
FruitsSettled ==
    \A r, q \in Sprouts :
        run[r].fruit.state = "local-only" /\ run[r].fruit.branch = q /\ q # r =>
            run[q].phase \in {"over", "dead"}

\* A run that is over, and whose commit has a file by the name of an edit.
Overwrote(s, q, e) == s.phase = "over" /\ s.committed /\ Clash(e, q)

CheckoutStands ==
    /\ OneAtATime /\ FruitsSettled
    /\ \A r \in Sprouts : Midway(r, run[r], host)
    /\ host.head \in host.exists /\ Main \in host.exists
    /\ host.head \in Sprouts => run[host.head].phase # "idle" /\ run[host.head].kind = "sprout"
    /\ host.tip[Main] = {} /\ \A r \in Sprouts : host.base[r] = {}
    /\ Clean(host) /\ Growth!Kept(host) \subseteq written
    /\ \A e \in written : e \in Growth!Kept(host) \/ \E q \in Sprouts : Overwrote(run[q], q, e)

\* Nobody failed to undo what it prepared.
Stacked ==
    /\ (\A r \in Sprouts : ~run[r].stashed) => host.stash = <<>>
    /\ (\E r \in Sprouts : run[r].stashed) => Len(host.stash) = 1

Returned ==
    /\ host.head = Main \/ \E r \in Sprouts : Away(run[r])
    /\ \A r \in Sprouts : Away(run[r]) =>
         run[r].from = Main /\ Growth!NoWork(host, r)
    /\ \A r \in host.exists \cap Sprouts : run[r].kind = "candidate" \/ Away(run[r])

Tidy ==
    (\A r \in Sprouts : ~run[r].lost) =>
        /\ Stacked
        /\ (\A r \in Sprouts : ~run[r].committed) => Returned

GrowthInv ==
    /\ Growth!TypeOK /\ Ground
    /\ alone => CheckoutStands
    /\ alone /\ deaths = 0 => Tidy

Growers == Growth!RunState
Hosts == Growth!Host

Branches == Sprouts \cup {Main}
Entries == [by : Sprouts, edits : SUBSET Unsaved]

OthersRest(r) == \A q \in Sprouts : q # r => ~UnderWay(q)

\* The same, of one run and the checkout, while the others rest.
OnGround(r, s, h) ==
    /\ h.trees \ {r} = host.trees \ {r}
    /\ r \in h.trees => s.phase \in {"growing", "turned", "committed", "recorded", "clearing"}
    /\ s.phase = "growing" => s.session /\ r \in h.trees

Accounted(r, s, h) ==
    /\ Growth!Kept(h) \subseteq written
    /\ \A e \in written :
         e \in Growth!Kept(h) \/ Overwrote(s, r, e) \/ \E q \in Sprouts \ {r} : Overwrote(run[q], q, e)

RunStands(r, s, h) ==
    /\ Midway(r, s, h)
    /\ s.fruit.state = "local-only" =>
         \A q \in Sprouts : s.fruit.branch = q /\ q # r => run[q].phase \in {"over", "dead"}
    /\ h.head \in h.exists /\ Main \in h.exists
    /\ h.head \in Sprouts /\ h.head # r => run[h.head].phase # "idle" /\ run[h.head].kind = "sprout"
    /\ h.head = r => s.kind = "sprout"
    /\ h.tip[Main] = {} /\ \A q \in Sprouts : h.base[q] = {}
    /\ Clean(h) /\ Accounted(r, s, h)
    /\ \A b \in Branches : b # r /\ b \in host.exists => b \in h.exists /\ host.tip[b] \subseteq h.tip[b]

Tidies(r, s, h) ==
    ~s.lost /\ (\A q \in Sprouts : q # r => ~run[q].lost) =>
        /\ s.stashed => Len(h.stash) = 1
        /\ ~s.stashed => h.stash = <<>>
        /\ ~s.committed /\ (\A q \in Sprouts : q # r => ~run[q].committed) =>
             /\ h.head = Main \/ Away(s)
             /\ Away(s) => s.from = Main /\ Growth!NoWork(h, r)
             /\ \A q \in h.exists \cap Sprouts : q # r => run[q].kind = "candidate"
             /\ r \in h.exists => s.kind = "candidate" \/ Away(s)

LEMMA NoMain == Main \notin Sprouts
BY GrowthIsBounded DEF Growth!SubstrateAssumption

LEMMA TypesAre ==
  ASSUME GrowthInv
  PROVE  /\ host \in Hosts /\ run \in [Sprouts -> Growers] /\ written \subseteq Unsaved
         /\ alone \in BOOLEAN /\ trouble \in 0 .. MaxTrouble /\ deaths \in 0 .. MaxDeaths
BY DEF GrowthInv, Growth!TypeOK, Hosts, Growers

\* What the invariant says of one run while the others rest.
LEMMA OneRun ==
  ASSUME GrowthInv, NEW r \in Sprouts
  PROVE  /\ OnGround(r, run[r], host) \/ run[r].phase = "dead"
         /\ alone => RunStands(r, run[r], host)
         /\ alone /\ deaths = 0 /\ OthersRest(r) => Tidies(r, run[r], host)
<1>1. OnGround(r, run[r], host) \/ run[r].phase = "dead"
  BY DEF GrowthInv, Ground, OnGround, Growth!GrowingKeepsItsGround
<1>2. ASSUME alone PROVE RunStands(r, run[r], host)
  <2>1. CheckoutStands
    BY <1>2 DEF GrowthInv
  <2>2. Accounted(r, run[r], host)
    BY <2>1 DEF CheckoutStands, Accounted
  <2> QED
    BY <2>1, <2>2 DEF CheckoutStands, FruitsSettled, RunStands
<1>3. ASSUME alone, deaths = 0, OthersRest(r) PROVE Tidies(r, run[r], host)
  <2>1. CheckoutStands /\ Tidy
    BY <1>3 DEF GrowthInv
  <2>2. \A q \in Sprouts : q # r => ~run[q].stashed /\ ~Away(run[q])
    BY <1>3, <2>1 DEF CheckoutStands, Midway, OthersRest, UnderWay, Growth!UnderWay, Away
  <2>3. (\A q \in Sprouts : ~run[q].lost) => Stacked /\ ((\A q \in Sprouts : ~run[q].committed) => Returned)
    BY <2>1 DEF Tidy
  <2>4. Stacked => /\ run[r].stashed => Len(host.stash) = 1
                   /\ ~run[r].stashed => host.stash = <<>>
    BY <2>2 DEF Stacked
  <2>5. Returned => /\ host.head = Main \/ Away(run[r])
                    /\ Away(run[r]) => run[r].from = Main /\ Growth!NoWork(host, r)
                    /\ \A q \in host.exists \cap Sprouts : q # r => run[q].kind = "candidate"
                    /\ r \in host.exists => run[r].kind = "candidate" \/ Away(run[r])
    BY <2>2 DEF Returned
  <2> QED
    BY <2>3, <2>4, <2>5 DEF Tidies
<1> QED
  BY <1>1, <1>2, <1>3

\* A run that moves while, in behaviours without an overlap, the others rest.
LEMMA StepKeeps ==
  ASSUME GrowthInv, NEW r \in Sprouts, NEW s \in Growers, host' \in Hosts,
         run' = [run EXCEPT ![r] = s], UNCHANGED <<written, deaths>>,
         trouble' \in 0 .. MaxTrouble, alone' \in BOOLEAN,
         alone' => alone /\ OthersRest(r),
         run[r].phase \notin {"over", "dead"}, s.phase \notin {"idle", "dead"},
         OnGround(r, s, host'),
         alone' => RunStands(r, s, host'),
         alone' /\ deaths = 0 => Tidies(r, s, host')
  PROVE  GrowthInv'
<1>1. /\ run \in [Sprouts -> Growers] /\ run' \in [Sprouts -> Growers] /\ run'[r] = s
      /\ \A q \in Sprouts : q # r => run'[q] = run[q]
  BY TypesAre
<1>2. Growth!TypeOK'
  BY <1>1, TypesAre DEF Growth!TypeOK, Hosts, Growers
<1>3. Ground'
  <2>1. Ground
    BY DEF GrowthInv
  <2>2. \A q \in host'.trees : q # r => q \in host.trees
    BY DEF OnGround
  <2>3. \A q \in host.trees : q # r => q \in host'.trees
    BY DEF OnGround
  <2>4. host'.trees \subseteq Sprouts
    BY DEF Hosts, Growth!Host
  <2>5. \A q \in host'.trees :
          run'[q].phase \in {"growing", "turned", "committed", "recorded", "clearing", "dead"}
    BY <1>1, <2>1, <2>2, <2>4 DEF Ground, OnGround
  <2>6. Growth!GrowingKeepsItsGround'
    BY <1>1, <2>1, <2>3 DEF Ground, OnGround, Growth!GrowingKeepsItsGround
  <2>7. deaths' = 0 => \A q \in Sprouts : run'[q].phase # "dead"
    BY <1>1, <2>1 DEF Ground
  <2> QED
    BY <2>5, <2>6, <2>7 DEF Ground
<1>4. ASSUME alone' PROVE CheckoutStands'
  <2>1. CheckoutStands /\ OthersRest(r) /\ RunStands(r, s, host')
    BY <1>4 DEF GrowthInv
  <2>2. OneAtATime'
    BY <1>1, <2>1 DEF OneAtATime, OthersRest, UnderWay, Growth!UnderWay
  <2>3. FruitsSettled'
    BY <1>1, <2>1 DEF CheckoutStands, RunStands, FruitsSettled
  <2>4. ASSUME NEW q \in Sprouts, q # r PROVE Midway(q, run[q], host')
    <3>1. Midway(q, run[q], host) /\ run[q].phase \in {"idle", "over", "dead"}
      BY <2>1, <2>4 DEF CheckoutStands, OthersRest, UnderWay, Growth!UnderWay
    <3>2. run[q].fruit.state = "local-only" => run[q].fruit.branch # r
      BY <2>1, <2>4 DEF CheckoutStands, FruitsSettled
    <3>3. run[q].fruit.state = "local-only" /\ run[q].fruit.branch \in host.exists =>
            run[q].fruit.branch \in host'.exists
            /\ host.tip[run[q].fruit.branch] \subseteq host'.tip[run[q].fruit.branch]
      <4>1. host.exists \subseteq Branches
        BY TypesAre DEF Hosts, Growth!Host, Branches, Growth!Branch
      <4> QED
        BY <2>1, <3>2, <4>1 DEF RunStands
    <3> QED
      BY <3>1, <3>3 DEF Midway, Away, HasBasis
  <2>5. \A q \in Sprouts : Midway(q, run'[q], host')
    BY <1>1, <2>1, <2>4 DEF RunStands
  <2>6. /\ Growth!Kept(host') \subseteq written'
        /\ \A e \in written' : e \in Growth!Kept(host') \/ \E q \in Sprouts : Overwrote(run'[q], q, e)
    BY <1>1, <2>1 DEF RunStands, Accounted
  <2>7. host'.head \in Sprouts => run'[host'.head].phase # "idle" /\ run'[host'.head].kind = "sprout"
    BY <1>1, <2>1 DEF RunStands
  <2> QED
    BY <2>1, <2>2, <2>3, <2>5, <2>6, <2>7 DEF CheckoutStands, RunStands, Clean
<1>5. ASSUME alone', deaths' = 0 PROVE Tidy'
  <2>1. OthersRest(r) /\ CheckoutStands' /\ Tidies(r, s, host')
    BY <1>4, <1>5
  <2>2. \A q \in Sprouts : q # r => ~run'[q].stashed /\ ~Away(run'[q])
    BY <1>1, <2>1 DEF CheckoutStands, Midway, OthersRest, UnderWay, Growth!UnderWay, Away
  <2>3. (\A q \in Sprouts : ~run'[q].lost) => ~s.lost /\ \A q \in Sprouts : q # r => ~run[q].lost
    BY <1>1
  <2>4. (\A q \in Sprouts : ~run'[q].committed) =>
          ~s.committed /\ \A q \in Sprouts : q # r => ~run[q].committed
    BY <1>1
  <2>5. /\ s.stashed => Len(host'.stash) = 1
        /\ ~s.stashed => host'.stash = <<>>
        => Stacked'
    BY <1>1, <2>2 DEF Stacked
  <2>6. /\ host'.head = Main \/ Away(s)
        /\ Away(s) => s.from = Main /\ Growth!NoWork(host', r)
        /\ \A q \in host'.exists \cap Sprouts : q # r => run[q].kind = "candidate"
        /\ r \in host'.exists => s.kind = "candidate" \/ Away(s)
        => Returned'
    BY <1>1, <2>2 DEF Returned
  <2> QED
    BY <2>1, <2>3, <2>4, <2>5, <2>6 DEF Tidy, Tidies
<1> QED
  BY <1>2, <1>3, <1>4, <1>5 DEF GrowthInv

LEMMA Terms ==
  ASSUME NEW s \in Growers
  PROVE  /\ s.phase \in Growth!Phase /\ s.kind \in {"sprout", "candidate"} /\ s.from \in Branches
         /\ {s.stashed, s.session, s.detached, s.committed, s.error, s.lost} \subseteq BOOLEAN
         /\ s.basis \subseteq Sprouts
         /\ s.fruit \in [branch : Branches \cup {"none"}, state : {"none", "local-only", "failed"}]
BY DEF Growers, Growth!RunState, Branches, Growth!Branch

\* The same but for the phase, the error and what no property looks at.
Like(t, s) == /\ t.kind = s.kind /\ t.from = s.from /\ t.stashed = s.stashed
              /\ t.committed = s.committed /\ t.fruit = s.fruit /\ t.lost = s.lost
              /\ t.basis = s.basis

LEMMA ToIs ==
  ASSUME NEW s \in Growers, NEW x \in Growth!Phase
  PROVE  /\ Growth!To(s, x) \in Growers /\ Growth!To(s, x).phase = x /\ Like(Growth!To(s, x), s)
         /\ Growth!To(s, x).session = s.session
         /\ Growth!To(s, x).turn = s.turn
BY DEF Growers, Growth!RunState, Growth!To, Like

LEMMA FailingIs ==
  ASSUME NEW s \in Growers, NEW x \in Growth!Phase
  PROVE  /\ Growth!Failing(s, x) \in Growers /\ Growth!Failing(s, x).phase = x
         /\ Like(Growth!Failing(s, x), s)
BY DEF Growers, Growth!RunState, Growth!Failing, Like

LEMMA AsleepIs ==
  ASSUME NEW k \in {"sprout", "candidate"}
  PROVE  Growth!Asleep(k) = [phase |-> "idle", kind |-> k, from |-> Main,
              basis |-> {}, stashed |-> FALSE, session |-> FALSE,
              detached |-> FALSE, turn |-> "none", committed |-> FALSE,
              fruit |-> [branch |-> "none", state |-> "none"],
              outcome |-> "none", error |-> FALSE, lost |-> FALSE,
              event |-> "none"]
         /\ Growth!Asleep(k) \in Growers
BY DEF Growth!Asleep, Growers, Growth!RunState, Growth!Phase, Growth!Turn, Growth!Outcome, Growth!Branch

LEMMA AnnouncedIs ==
  ASSUME NEW s \in Growers
  PROVE  LET t == Growth!Announced(s)
         IN  /\ t \in Growers /\ t.phase = "over" /\ t.kind = s.kind /\ t.from = Main
             /\ t.stashed = FALSE /\ t.committed = s.committed /\ t.fruit = s.fruit
             /\ t.lost = s.lost
<1> DEFINE out == Growth!Final(s)
           ev  == Growth!Event(out)
<1>1. s.outcome \in Growth!Outcome
  BY DEF Growers, Growth!RunState
<1>2. out \in Growth!Outcome
  BY <1>1 DEF Growth!Final, Growth!Outcome
<1>3. ev \in {"none", "matured", "withered"}
  BY DEF Growth!Event
<1>6. s.kind \in {"sprout", "candidate"}
  BY Terms
<1> HIDE DEF out, ev
<1>7. Growth!Announced(s) =
        [Growth!Asleep(s.kind) EXCEPT !.phase = "over", !.outcome = out,
           !.event = ev, !.error = s.error, !.lost = s.lost,
           !.committed = s.committed, !.fruit = s.fruit]
  BY DEF Growth!Announced, out, ev
<1>8. Growth!Asleep(s.kind) = [phase |-> "idle", kind |-> s.kind, from |-> Main,
              basis |-> {}, stashed |-> FALSE, session |-> FALSE,
              detached |-> FALSE, turn |-> "none", committed |-> FALSE,
              fruit |-> [branch |-> "none", state |-> "none"],
              outcome |-> "none", error |-> FALSE, lost |-> FALSE,
              event |-> "none"]
  BY <1>6, AsleepIs
<1>4. Growth!Asleep(s.kind) \in Growers
  BY <1>6, AsleepIs
<1>5. Growth!Announced(s) \in Growers
  <2> DEFINE z == Growth!Asleep(s.kind)
  <2>1. "over" \in Growth!Phase
    BY DEF Growth!Phase
  <2>2. /\ s.error \in BOOLEAN /\ s.lost \in BOOLEAN /\ s.committed \in BOOLEAN
        /\ s.fruit \in [branch : Growth!Branch \cup {"none"}, state : {"none", "local-only", "failed"}]
    BY Terms DEF Branches, Growth!Branch
  <2> HIDE DEF z
  <2>3. ASSUME z \in Growers
        PROVE  [z EXCEPT !.phase = "over", !.outcome = out,
           !.event = ev, !.error = s.error, !.lost = s.lost,
           !.committed = s.committed, !.fruit = s.fruit] \in Growers
    BY <1>2, <1>3, <2>1, <2>2, <2>3 DEF Growers, Growth!RunState
  <2> QED
    BY <1>4, <1>7, <2>3 DEF z
<1>9. /\ Growth!Announced(s).phase = "over" /\ Growth!Announced(s).kind = s.kind
      /\ Growth!Announced(s).from = Main /\ Growth!Announced(s).fruit = s.fruit
  BY <1>7, <1>8
<1>10. Growth!Announced(s).stashed = FALSE
  BY <1>7, <1>8
<1>11. Growth!Announced(s).committed = s.committed /\ Growth!Announced(s).lost = s.lost
  BY <1>7, <1>8
<1> QED
  BY <1>5, <1>9, <1>10, <1>11

-----------------------------------------------------------------------------
\* The checkout.
LEMMA HostIs ==
  ASSUME NEW h \in Hosts
  PROVE  /\ h.head \in Branches /\ h.tip \in [Branches -> SUBSET Sprouts]
         /\ h.exists \subseteq Branches /\ h.owned \subseteq Sprouts
         /\ h.base \in [Sprouts -> SUBSET Sprouts] /\ h.dirty \subseteq Unsaved
         /\ h.stash \in Seq(Entries) /\ h.trees \subseteq Sprouts
BY DEF Hosts, Growth!Host, Branches, Growth!Branch, Entries

LEMMA IsolatedIs ==
  ASSUME NEW h \in Hosts, NEW r \in Sprouts, NEW reg \in BOOLEAN
  PROVE  LET g == Growth!Isolated(h, r, reg)
         IN  /\ g \in Hosts /\ g.head = r /\ g.exists = h.exists \cup {r}
             /\ g.tip = [h.tip EXCEPT ![r] = h.tip[h.head]]
             /\ g.base = [h.base EXCEPT ![r] = h.tip[h.head]]
             /\ g.owned = IF reg THEN h.owned \cup {r} ELSE h.owned
             /\ g.dirty = h.dirty /\ g.stash = h.stash /\ g.trees = h.trees
<1>1. r \in Branches /\ h.tip[h.head] \in SUBSET Sprouts
  BY HostIs DEF Branches
<1> QED
  BY <1>1, HostIs DEF Growth!Isolated, Hosts, Growth!Host, Branches, Growth!Branch

LEMMA SmallStepsAre ==
  ASSUME NEW h \in Hosts, NEW r \in Sprouts
  PROVE  /\ LET g == Growth!Planted(h, r)
            IN  /\ g \in Hosts /\ g.trees = h.trees \cup {r}
                /\ g.head = h.head /\ g.exists = h.exists /\ g.tip = h.tip /\ g.base = h.base
                /\ g.owned = h.owned /\ g.dirty = h.dirty /\ g.stash = h.stash
         /\ LET g == Growth!Uprooted(h, r)
            IN  /\ g \in Hosts /\ g.trees = h.trees \ {r}
                /\ g.head = h.head /\ g.exists = h.exists /\ g.tip = h.tip /\ g.base = h.base
                /\ g.owned = h.owned /\ g.dirty = h.dirty /\ g.stash = h.stash
         /\ LET g == Growth!Deleted(h, r)
            IN  /\ g \in Hosts /\ g.trees = h.trees
                /\ g.head = h.head /\ g.exists = h.exists \ {r} /\ g.tip = h.tip /\ g.base = h.base
                /\ g.owned = h.owned \ {r} /\ g.dirty = h.dirty /\ g.stash = h.stash
BY DEF Growth!Planted, Growth!Uprooted, Growth!Deleted, Hosts, Growth!Host

LEMMA CheckedOutIs ==
  ASSUME NEW h \in Hosts, NEW b \in Branches
  PROVE  LET g == Growth!CheckedOut(h, b)
         IN  /\ g \in Hosts /\ g.trees = h.trees
             /\ g.head = b /\ g.exists = h.exists /\ g.tip = h.tip /\ g.base = h.base
             /\ g.owned = h.owned /\ g.dirty = h.dirty /\ g.stash = h.stash
BY DEF Growth!CheckedOut, Hosts, Growth!Host, Branches, Growth!Branch

LEMMA GrownTipIs ==
  ASSUME NEW h \in Hosts, NEW b \in Branches, NEW c \in SUBSET Sprouts
  PROVE  LET g == [h EXCEPT !.tip[b] = c]
         IN  /\ g \in Hosts /\ g.trees = h.trees
             /\ g.head = h.head /\ g.exists = h.exists /\ g.tip = [h.tip EXCEPT ![b] = c] /\ g.base = h.base
             /\ g.owned = h.owned /\ g.dirty = h.dirty /\ g.stash = h.stash
BY DEF Hosts, Growth!Host, Branches, Growth!Branch

LEMMA SeededIs ==
  ASSUME NEW h \in Hosts, NEW r \in Sprouts
  PROVE  LET g == [h EXCEPT !.exists = @ \cup {r}, !.tip[r] = h.tip[h.head]]
         IN  /\ g \in Hosts /\ g.trees = h.trees
             /\ g.head = h.head /\ g.exists = h.exists \cup {r}
             /\ g.tip = [h.tip EXCEPT ![r] = h.tip[h.head]] /\ g.base = h.base
             /\ g.owned = h.owned /\ g.dirty = h.dirty /\ g.stash = h.stash
<1>1. r \in Branches /\ h.tip[h.head] \in SUBSET Sprouts
  BY HostIs DEF Branches
<1> QED
  BY <1>1, HostIs DEF Hosts, Growth!Host, Branches, Growth!Branch

LEMMA HitIs ==
  ASSUME NEW es, NEW c
  PROVE  Growth!Hit(es, c) = {e \in es : \E q \in c : Clash(e, q)}
BY DEF Growth!Hit, Clash

LEMMA ObstructedIs ==
  ASSUME NEW h, NEW c
  PROVE  ~Growth!Obstructed(h, c) <=> \A e \in h.dirty, q \in c : ~Clash(e, q)
BY HitIs DEF Growth!Obstructed

LEMMA OverrunIs ==
  ASSUME NEW h
  PROVE  Growth!Overrun(h) = {e \in Head(h.stash).edits : \E q \in h.tip[h.head] : Clash(e, q)}
BY HitIs DEF Growth!Overrun

LEMMA LaidIs ==
  ASSUME NEW h \in Hosts, h.stash # <<>>
  PROVE  LET g == Growth!Laid(h)
         IN  /\ g \in Hosts /\ g.trees = h.trees
             /\ g.head = h.head /\ g.exists = h.exists /\ g.tip = h.tip /\ g.base = h.base
             /\ g.owned = h.owned /\ g.stash = h.stash
             /\ g.dirty = h.dirty \cup (Head(h.stash).edits \ Growth!Overrun(h))
<1> DEFINE X == Growth!Overrun(h)
<1>1. Head(h.stash) \in Entries
  BY HostIs, HeadTailProperties
<1>2. Growth!Laid(h) = [h EXCEPT !.dirty = @ \cup (Head(h.stash).edits \ X)]
  BY DEF Growth!Laid
<1> HIDE DEF X
<1>3. [h EXCEPT !.dirty = @ \cup (Head(h.stash).edits \ X)] \in Hosts
  BY <1>1, HostIs DEF Hosts, Growth!Host, Entries
<1>4. LET g == [h EXCEPT !.dirty = @ \cup (Head(h.stash).edits \ X)]
      IN  /\ g.trees = h.trees
          /\ g.head = h.head /\ g.exists = h.exists /\ g.tip = h.tip /\ g.base = h.base
          /\ g.owned = h.owned /\ g.stash = h.stash
          /\ g.dirty = h.dirty \cup (Head(h.stash).edits \ X)
  BY DEF Hosts, Growth!Host
<1> QED
  BY <1>2, <1>3, <1>4 DEF X

LEMMA DroppedIs ==
  ASSUME NEW h \in Hosts, h.stash # <<>>
  PROVE  LET g == Growth!Dropped(h)
         IN  /\ g \in Hosts /\ g.trees = h.trees
             /\ g.head = h.head /\ g.exists = h.exists /\ g.tip = h.tip /\ g.base = h.base
             /\ g.owned = h.owned /\ g.dirty = h.dirty /\ g.stash = Tail(h.stash)
<1>1. Tail(h.stash) \in Seq(Entries)
  BY HostIs, HeadTailProperties
<1> QED
  BY <1>1, HostIs DEF Growth!Dropped, Hosts, Growth!Host, Entries

LEMMA StashedIs ==
  ASSUME NEW h \in Hosts, NEW r \in Sprouts
  PROVE  LET g == Growth!Stashed(h, r)
         IN  /\ g \in Hosts /\ g.trees = h.trees
             /\ g.head = h.head /\ g.exists = h.exists /\ g.tip = h.tip /\ g.base = h.base
             /\ g.owned = h.owned /\ g.dirty = {}
             /\ g.stash = <<[by |-> r, edits |-> h.dirty]>> \o h.stash
<1>1. <<[by |-> r, edits |-> h.dirty]>> \o h.stash \in Seq(Entries)
  <2>1. [by |-> r, edits |-> h.dirty] \in Entries
    BY HostIs DEF Entries
  <2> QED
    BY <2>1, HostIs
<1> QED
  BY <1>1, HostIs DEF Growth!Stashed, Hosts, Growth!Host, Entries

\* No edit is lost by stashing, by laying an entry onto the tree, or by dropping
\* one that is in the tree.
LEMMA KeptIs ==
  ASSUME NEW h \in Hosts
  PROVE  Growth!Kept(h) = h.dirty \cup UNION {h.stash[i].edits : i \in 1 .. Len(h.stash)}
BY HostIs DEF Growth!Kept

LEMMA KeptOfSame ==
  ASSUME NEW h \in Hosts, NEW g \in Hosts, g.dirty = h.dirty, g.stash = h.stash
  PROVE  Growth!Kept(g) = Growth!Kept(h)
BY KeptIs

LEMMA StashKeeps ==
  ASSUME NEW h \in Hosts, NEW r \in Sprouts
  PROVE  /\ Growth!Kept(Growth!Stashed(h, r)) = Growth!Kept(h)
         /\ Len(Growth!Stashed(h, r).stash) = Len(h.stash) + 1
<1> DEFINE g == Growth!Stashed(h, r)
           q == h.stash
<1>1. g \in Hosts /\ g.dirty = {} /\ g.stash = <<[by |-> r, edits |-> h.dirty]>> \o q /\ q \in Seq(Entries)
  BY StashedIs, HostIs
<1>2. /\ Len(g.stash) = Len(q) + 1 /\ g.stash[1].edits = h.dirty
      /\ \A i \in 1 .. Len(q) : g.stash[i + 1] = q[i]
  BY <1>1
<1>3. Growth!Kept(g) = UNION {g.stash[i].edits : i \in 1 .. Len(g.stash)}
  BY <1>1, KeptIs
<1>4. Growth!Kept(h) = h.dirty \cup UNION {q[i].edits : i \in 1 .. Len(q)}
  BY KeptIs
<1>5. ASSUME NEW e \in Growth!Kept(h) PROVE e \in Growth!Kept(g)
  <2>1. CASE e \in h.dirty
    <3>1. 1 \in 1 .. Len(g.stash)
      BY <1>1, <1>2
    <3> QED
      BY <1>2, <1>3, <2>1, <3>1
  <2>2. CASE \E i \in 1 .. Len(q) : e \in q[i].edits
    <3>1. PICK i \in 1 .. Len(q) : e \in q[i].edits
      BY <2>2
    <3>2. i + 1 \in 1 .. Len(g.stash)
      BY <1>1, <1>2
    <3> QED
      BY <1>2, <1>3, <3>1, <3>2
  <2> QED
    BY <1>4, <1>5, <2>1, <2>2
<1>6. ASSUME NEW e \in Growth!Kept(g) PROVE e \in Growth!Kept(h)
  <2>1. PICK i \in 1 .. Len(g.stash) : e \in g.stash[i].edits
    BY <1>3, <1>6
  <2>2. CASE i = 1
    BY <1>2, <1>4, <2>1, <2>2
  <2>3. CASE i # 1
    <3>1. i - 1 \in 1 .. Len(q) /\ (i - 1) + 1 = i
      BY <1>1, <1>2, <2>3
    <3>2. g.stash[i] = q[i - 1]
      BY <1>2, <3>1
    <3> QED
      BY <1>4, <2>1, <3>1, <3>2
  <2> QED
    BY <2>2, <2>3
<1> QED
  BY <1>2, <1>5, <1>6

LEMMA LayKeeps ==
  ASSUME NEW h \in Hosts, h.stash # <<>>
  PROVE  /\ Growth!Kept(Growth!Laid(h)) = Growth!Kept(h)
         /\ Clean(h) => Clean(Growth!Laid(h))
         /\ \A e \in Head(h.stash).edits :
              e \in Growth!Laid(h).dirty \/ \E q \in h.tip[h.head] : Clash(e, q)
<1> DEFINE E == Head(h.stash).edits \ Growth!Overrun(h)
<1>1. /\ Growth!Laid(h) \in Hosts /\ Growth!Laid(h).stash = h.stash
      /\ Growth!Laid(h).dirty = h.dirty \cup E
      /\ Growth!Laid(h).tip = h.tip /\ Growth!Laid(h).head = h.head
  BY LaidIs
<1>2. Head(h.stash) = h.stash[1] /\ 1 \in 1 .. Len(h.stash)
  BY HostIs
<1>3. Growth!Kept(h) = h.dirty \cup UNION {h.stash[i].edits : i \in 1 .. Len(h.stash)}
  BY KeptIs
<1>6. E = {e \in Head(h.stash).edits : \A q \in h.tip[h.head] : ~Clash(e, q)}
  BY OverrunIs
<1> HIDE DEF E
<1>4. Growth!Kept(Growth!Laid(h)) =
        h.dirty \cup E \cup UNION {h.stash[i].edits : i \in 1 .. Len(h.stash)}
  BY <1>1, KeptIs
<1>5. E \subseteq UNION {h.stash[i].edits : i \in 1 .. Len(h.stash)}
  BY <1>2, <1>6
<1>7. Growth!Kept(Growth!Laid(h)) = Growth!Kept(h)
  BY <1>3, <1>4, <1>5
<1>8. Clean(h) => Clean(Growth!Laid(h))
  BY <1>1, <1>6 DEF Clean
<1>9. \A e \in Head(h.stash).edits :
        e \in Growth!Laid(h).dirty \/ \E q \in h.tip[h.head] : Clash(e, q)
  BY <1>1, <1>6
<1> QED
  BY <1>7, <1>8, <1>9

\* What a dropped entry takes with it is what is not in the tree.
LEMMA DropKeeps ==
  ASSUME NEW h \in Hosts, h.stash # <<>>
  PROVE  /\ Growth!Kept(Growth!Dropped(h)) \subseteq Growth!Kept(h)
         /\ Growth!Kept(h) \ Growth!Kept(Growth!Dropped(h)) \subseteq Head(h.stash).edits \ h.dirty
<1> DEFINE g == Growth!Dropped(h)
           q == h.stash
<1>1. g \in Hosts /\ g.dirty = h.dirty /\ g.stash = Tail(q) /\ q \in Seq(Entries)
  BY DroppedIs, HostIs
<1>2. /\ Len(g.stash) = Len(q) - 1 /\ Len(q) \in Nat \ {0} /\ Head(q) = q[1]
      /\ \A i \in 1 .. Len(q) - 1 : g.stash[i] = q[i + 1]
  BY <1>1
<1>3. Growth!Kept(g) = h.dirty \cup UNION {g.stash[i].edits : i \in 1 .. Len(g.stash)}
  BY <1>1, KeptIs
<1>4. Growth!Kept(h) = h.dirty \cup UNION {q[i].edits : i \in 1 .. Len(q)}
  BY KeptIs
<1>5. ASSUME NEW i \in 1 .. Len(q), NEW e \in q[i].edits
      PROVE  e \in Growth!Kept(g) \/ e \in Head(q).edits \ h.dirty
  <2>1. CASE i = 1
    BY <1>2, <1>3, <1>5, <2>1
  <2>2. CASE i # 1
    <3>1. i - 1 \in 1 .. Len(q) - 1 /\ (i - 1) + 1 = i
      BY <1>2, <2>2
    <3>2. g.stash[i - 1] = q[i] /\ i - 1 \in 1 .. Len(g.stash)
      BY <1>2, <3>1
    <3> QED
      BY <1>3, <3>2
  <2> QED
    BY <2>1, <2>2
<1>6. ASSUME NEW i \in 1 .. Len(g.stash), NEW e \in g.stash[i].edits PROVE e \in Growth!Kept(h)
  <2>1. i + 1 \in 1 .. Len(q) /\ g.stash[i] = q[i + 1]
    BY <1>2
  <2> QED
    BY <1>4, <2>1
<1> QED
  BY <1>3, <1>4, <1>5, <1>6

-----------------------------------------------------------------------------
\* A step of a run that is under way.
LEMMA MoveKeeps ==
  ASSUME GrowthInv, NEW r \in Sprouts, UnderWay(r), NEW s \in Growers, NEW h \in Hosts,
         Growth!Move(r, s, h), Growth!Sound \/ Growth!Faulty,
         s.phase \notin {"idle", "dead"}, OnGround(r, s, h),
         alone /\ OthersRest(r) => RunStands(r, s, h),
         alone /\ OthersRest(r) /\ deaths = 0 => Tidies(r, s, h)
  PROVE  GrowthInv'
<1>1. /\ run' = [run EXCEPT ![r] = s] /\ host' = h
      /\ UNCHANGED <<written, alone, deaths>>
  BY DEF Growth!Move
<1>2. trouble' \in 0 .. MaxTrouble /\ alone' \in BOOLEAN
  <2>1. MaxTrouble \in Nat
    BY GrowthIsBounded DEF Growth!SproutRunAssumption
  <2>2. alone' \in BOOLEAN
    BY <1>1, TypesAre
  <2> QED
    BY <1>1, <2>1, <2>2, TypesAre DEF Growth!Sound, Growth!Faulty
<1>3. alone => OthersRest(r)
  BY DEF GrowthInv, CheckoutStands, OneAtATime, OthersRest
<1>4. run[r].phase \notin {"over", "dead"}
  BY DEF UnderWay, Growth!UnderWay
<1> QED
  BY <1>1, <1>2, <1>3, <1>4, StepKeeps

\* A run that is not over has lost nothing yet.
LEMMA SameAccounts ==
  ASSUME NEW r, NEW s, NEW t, NEW h, NEW g, Accounted(r, s, h), s.phase # "over",
         Growth!Kept(g) = Growth!Kept(h)
  PROVE  Accounted(r, t, g)
BY DEF Accounted, Overwrote

\* A step that leaves the branches, the edits and the stash as they are.
Quiet(h) == /\ h \in Hosts /\ h.head = host.head /\ h.exists = host.exists /\ h.tip = host.tip
            /\ h.base = host.base /\ h.owned = host.owned
            /\ h.dirty = host.dirty /\ h.stash = host.stash

LEMMA QuietStands ==
  ASSUME GrowthInv, alone, NEW r \in Sprouts, NEW s \in Growers, NEW h, Quiet(h), Midway(r, s, h),
         run[r].phase # "over", s.kind = run[r].kind,
         s.fruit.state = "local-only" => s.fruit = run[r].fruit
  PROVE  RunStands(r, s, h)
<1>1. RunStands(r, run[r], host)
  BY OneRun
<1>2. Growth!Kept(h) = Growth!Kept(host)
  BY TypesAre, KeptOfSame DEF Quiet
<1>3. Accounted(r, s, h)
  BY <1>1, <1>2, SameAccounts DEF RunStands
<1> QED
  BY <1>1, <1>3 DEF RunStands, Quiet, Clean

LEMMA QuietTidies ==
  ASSUME GrowthInv, alone, deaths = 0, NEW r \in Sprouts, OthersRest(r), NEW s \in Growers,
         NEW h, Quiet(h),
         s.stashed = run[r].stashed, ~s.lost => ~run[r].lost, ~s.committed => ~run[r].committed,
         s.kind = run[r].kind, Away(s) <=> Away(run[r]), Away(s) => s.from = run[r].from
  PROVE  Tidies(r, s, h)
<1>1. Tidies(r, run[r], host)
  BY OneRun
<1>2. Growth!NoWork(h, r) <=> Growth!NoWork(host, r)
  BY DEF Quiet, Growth!NoWork
<1> QED
  BY <1>1, <1>2 DEF Tidies, Quiet

LEMMA QuietIs ==
  ASSUME GrowthInv, NEW r \in Sprouts
  PROVE  Quiet(host) /\ Quiet(Growth!Planted(host, r)) /\ Quiet(Growth!Uprooted(host, r))
BY TypesAre, SmallStepsAre DEF Quiet

\* Among the steps before a run is cleared away, and to clearing, nothing but
\* its phase matters.
Early == {"isolated", "stashed", "growing", "turned", "committed", "recorded"}

LEMMA QuietKeeps ==
  ASSUME GrowthInv, NEW r \in Sprouts, run[r].phase \in Early, NEW s \in Growers, NEW h,
         Quiet(h), Growth!Move(r, s, h), Growth!Sound \/ Growth!Faulty,
         s.phase \in (Early \ {"isolated", "recorded"}) \cup {"clearing"}, OnGround(r, s, h),
         s.kind = run[r].kind, s.from = run[r].from, s.stashed = run[r].stashed,
         s.lost = run[r].lost,
         s.committed \/ (s.committed = run[r].committed /\ s.phase # "committed"),
         s.phase \in HasBasis =>
           \/ s.basis = run[r].basis /\ run[r].phase \in HasBasis
           \/ s.kind = "sprout" => s.basis \subseteq host.tip[host.head],
         IF run[r].phase = "recorded"
         THEN s.fruit.state = "failed" /\ s.fruit.branch = run[r].fruit.branch /\ s.phase = "clearing"
         ELSE s.fruit = run[r].fruit
  PROVE  GrowthInv'
<1>1. h \in Hosts /\ UnderWay(r)
  BY DEF Quiet, UnderWay, Growth!UnderWay, Early
<1>2. ASSUME alone PROVE Midway(r, s, h)
  <2>1. Midway(r, run[r], host)
    BY <1>2 DEF GrowthInv, CheckoutStands
  <2> QED
    BY <2>1 DEF Midway, Away, Early, Quiet, Entry, HasBasis
<1>3. ASSUME alone, OthersRest(r) PROVE RunStands(r, s, h)
  BY <1>2, <1>3, QuietStands DEF Early
<1>4. Away(s) <=> Away(run[r])
  BY DEF Away, Early
<1>5. ASSUME alone, OthersRest(r), deaths = 0 PROVE Tidies(r, s, h)
  BY <1>4, <1>5, QuietTidies
<1> QED
  BY <1>1, <1>3, <1>5, MoveKeeps DEF Early

LEMMA EarlyGround ==
  ASSUME GrowthInv, NEW r \in Sprouts, run[r].phase \in Early
  PROVE  /\ run[r] \in Growers /\ OnGround(r, run[r], host)
         /\ run[r].phase \in {"isolated", "stashed"} => r \notin host.trees
BY TypesAre, OneRun DEF OnGround, Early

LEMMA PlantKeeps == ASSUME GrowthInv, NEW r \in Sprouts, Growth!Plant(r) PROVE GrowthInv'
<1> DEFINE s == run[r]
<1>1. s.phase = "stashed" /\ s \in Growers /\ OnGround(r, s, host) /\ r \notin host.trees
  BY EarlyGround DEF Growth!Plant, Early
<1>2. CASE Growth!Move(r, Growth!Opened(s, r), Growth!Planted(host, r)) /\ Growth!Sound
  <2> DEFINE t == Growth!Opened(s, r)
             B == Growth!Basis(s, r)
  <2>1. B \subseteq Sprouts
    BY TypesAre, HostIs DEF Growth!Basis, Branches
  <2>2. Growth!To(s, "growing") \in Growers /\ Like(Growth!To(s, "growing"), s)
        /\ Growth!To(s, "growing").phase = "growing"
    BY <1>1, ToIs DEF Growth!Phase
  <2> HIDE DEF B
  <2>3. /\ t \in Growers /\ t.phase = "growing" /\ t.session
        /\ t.kind = s.kind /\ t.from = s.from /\ t.stashed = s.stashed
        /\ t.committed = s.committed /\ t.fruit = s.fruit /\ t.lost = s.lost
        /\ t.basis = B
    BY <2>1, <2>2 DEF Growth!Opened, B, Growers, Growth!RunState, Like
  <2>5. s.kind = "sprout" => B \subseteq host.tip[host.head]
    BY DEF B, Growth!Basis
  <2>4. OnGround(r, t, Growth!Planted(host, r))
    BY <1>1, <2>3, TypesAre, SmallStepsAre DEF OnGround
  <2> QED
    BY <1>1, <1>2, <2>3, <2>4, <2>5, QuietIs, QuietKeeps DEF Early, HasBasis
<1>3. CASE Growth!Move(r, Growth!Failing(s, "clearing"), host) /\ Growth!Faulty
  <2>1. Growth!Failing(s, "clearing") \in Growers /\ Like(Growth!Failing(s, "clearing"), s)
        /\ Growth!Failing(s, "clearing").phase = "clearing"
    BY <1>1, FailingIs DEF Growth!Phase
  <2> QED
    BY <1>1, <1>3, <2>1, QuietIs, QuietKeeps DEF Early, HasBasis, Like, OnGround
<1> QED
  BY <1>2, <1>3 DEF Growth!Plant

LEMMA EndedKeeps ==
  ASSUME GrowthInv, NEW r \in Sprouts, run[r].phase = "growing", NEW t \in Growth!Turn,
         Growth!Ended(r, t), Growth!Sound
  PROVE  GrowthInv'
<1> DEFINE s == [Growth!To(run[r], "turned") EXCEPT !.turn = t, !.detached = FALSE]
<1>1. run[r] \in Growers /\ OnGround(r, run[r], host)
  BY EarlyGround DEF Early
<1>2. Growth!To(run[r], "turned") \in Growers /\ Like(Growth!To(run[r], "turned"), run[r])
      /\ Growth!To(run[r], "turned").phase = "turned"
  BY <1>1, ToIs DEF Growth!Phase
<1>3. s \in Growers /\ s.phase = "turned" /\ Like(s, run[r])
  BY <1>2 DEF Growers, Growth!RunState, Like
<1>4. Growth!Move(r, s, host)
  BY DEF Growth!Ended
<1> HIDE DEF s
<1> QED
  BY <1>1, <1>3, <1>4, QuietIs, QuietKeeps DEF Early, HasBasis, Like, OnGround

LEMMA GrowingKeeps ==
  ASSUME GrowthInv, NEW r \in Sprouts, Growth!TurnEnds(r) \/ Growth!Clocks(r) PROVE GrowthInv'
<1>1. run[r].phase = "growing" /\ Growth!Sound
  BY DEF Growth!TurnEnds, Growth!Clocks, Growth!GrowthSpent, Growth!Reap, Growth!Cancel
<1>2. CASE \E t \in Growth!Turn : Growth!Ended(r, t)
  BY <1>1, <1>2, EndedKeeps
<1>3. CASE Growth!Move(r, Growth!Detached(r), host)
  <2>1. run[r] \in Growers /\ OnGround(r, run[r], host)
    BY <1>1, EarlyGround DEF Early
  <2>2. /\ Growth!Detached(r) \in Growers /\ Like(Growth!Detached(r), run[r])
        /\ Growth!Detached(r).phase = "growing" /\ Growth!Detached(r).session = run[r].session
    BY <1>1, <2>1 DEF Growth!Detached, Growers, Growth!RunState, Like
  <2> QED
    BY <1>1, <1>3, <2>1, <2>2, QuietIs, QuietKeeps DEF Early, HasBasis, Like, OnGround
<1> QED
  BY <1>2, <1>3 DEF Growth!TurnEnds, Growth!Clocks, Growth!GrowthSpent, Growth!Reap, Growth!Cancel,
                    Growth!Turn

LEMMA CompleteKeeps == ASSUME GrowthInv, NEW r \in Sprouts, Growth!Complete(r) PROVE GrowthInv'
<1> DEFINE out == Growth!Classified(run[r].turn)
           broke == run[r].turn \notin {"wrote", "idle"}
           s == [run[r] EXCEPT !.session = FALSE, !.outcome = out, !.error = broke]
<1>1. run[r].phase = "turned" /\ run[r] \in Growers /\ OnGround(r, run[r], host)
  BY EarlyGround DEF Growth!Complete, Early
<1>2. out \in Growth!Outcome /\ broke \in BOOLEAN
  BY <1>1 DEF Growth!Classified, Growth!Outcome, Growers, Growth!RunState, Growth!Turn
<1>3. s \in Growers /\ Like(s, run[r]) /\ s.phase = "turned"
  <2> HIDE DEF out, broke
  <2> QED
    BY <1>1, <1>2 DEF Growers, Growth!RunState, Like
<1> HIDE DEF out, broke
<1>4. PICK measured \in BOOLEAN :
        IF Growth!Commits(s, measured)
        THEN \/ Growth!Move(r, Growth!Committed(s), host) /\ Growth!Sound
             \/ Growth!Move(r, Growth!Uncommitted(s), host) /\ Growth!Faulty
        ELSE Growth!Move(r, Growth!To(s, "clearing"), host)
             /\ IF measured THEN Growth!Sound ELSE Growth!Faulty
  BY DEF Growth!Complete, Growth!Measurements, out, broke
<1> HIDE DEF s
<1>5. CASE Growth!Move(r, Growth!Committed(s), host) /\ Growth!Sound
  <2>1. /\ Growth!Committed(s) \in Growers /\ Growth!Committed(s).phase = "committed"
        /\ Growth!Committed(s).committed /\ Growth!Committed(s).kind = s.kind
        /\ Growth!Committed(s).from = s.from /\ Growth!Committed(s).stashed = s.stashed
        /\ Growth!Committed(s).fruit = s.fruit /\ Growth!Committed(s).lost = s.lost
        /\ Growth!Committed(s).basis = s.basis
    <3>1. Growth!To(s, "committed") \in Growers /\ Like(Growth!To(s, "committed"), s)
          /\ Growth!To(s, "committed").phase = "committed"
      BY <1>3, ToIs DEF Growth!Phase
    <3> QED
      BY <3>1 DEF Growth!Committed, Growers, Growth!RunState, Like
  <2> QED
    BY <1>1, <1>3, <1>5, <2>1, QuietIs, QuietKeeps DEF Early, HasBasis, Like, OnGround
<1>6. CASE Growth!Move(r, Growth!Uncommitted(s), host) /\ Growth!Faulty
  <2>1. /\ Growth!Uncommitted(s) \in Growers /\ Growth!Uncommitted(s).phase = "clearing"
        /\ Like(Growth!Uncommitted(s), s)
    <3>1. Growth!Failing(s, "clearing") \in Growers /\ Like(Growth!Failing(s, "clearing"), s)
          /\ Growth!Failing(s, "clearing").phase = "clearing"
      BY <1>3, FailingIs DEF Growth!Phase
    <3> QED
      BY <3>1 DEF Growth!Uncommitted, Growers, Growth!RunState, Growth!Outcome, Like
  <2> QED
    BY <1>1, <1>3, <1>6, <2>1, QuietIs, QuietKeeps DEF Early, HasBasis, Like, OnGround
<1>7. CASE Growth!Move(r, Growth!To(s, "clearing"), host) /\ (Growth!Sound \/ Growth!Faulty)
  <2>1. /\ Growth!To(s, "clearing") \in Growers /\ Growth!To(s, "clearing").phase = "clearing"
        /\ Like(Growth!To(s, "clearing"), s)
    BY <1>3, ToIs DEF Growth!Phase
  <2> QED
    BY <1>1, <1>3, <1>7, <2>1, QuietIs, QuietKeeps DEF Early, HasBasis, Like, OnGround
<1> QED
  BY <1>4, <1>5, <1>6, <1>7

LEMMA RecordKeeps == ASSUME GrowthInv, NEW r \in Sprouts, Growth!Record(r) PROVE GrowthInv'
<1> DEFINE s == run[r]
           t == [Growth!To(s, "recorded") EXCEPT !.fruit = [branch |-> host.head, state |-> "local-only"]]
<1>1. s.phase = "committed" /\ s.kind = "sprout" /\ s \in Growers /\ OnGround(r, s, host)
  BY EarlyGround DEF Growth!Record, Early
<1>2. CASE Growth!Move(r, t, host) /\ Growth!Sound
  <2>1. /\ Growth!To(s, "recorded") \in Growers /\ Growth!To(s, "recorded").phase = "recorded"
        /\ Like(Growth!To(s, "recorded"), s)
    BY <1>1, ToIs DEF Growth!Phase
  <2>2. host.head \in Branches
    BY TypesAre, HostIs
  <2>3. /\ t \in Growers /\ t.phase = "recorded" /\ t.kind = s.kind /\ t.from = s.from
        /\ t.stashed = s.stashed /\ t.committed = s.committed /\ t.lost = s.lost
        /\ t.fruit = [branch |-> host.head, state |-> "local-only"] /\ t.basis = s.basis
    BY <2>1, <2>2 DEF Growers, Growth!RunState, Like, Branches, Growth!Branch
  <2> HIDE DEF t
  <2>4. ASSUME alone, OthersRest(r) PROVE RunStands(r, t, host)
    <3>1. RunStands(r, s, host)
      BY <2>4, OneRun
    <3>2. Midway(r, t, host)
      BY <1>1, <2>3, <3>1 DEF RunStands, Midway, Away, Entry, HasBasis
    <3>4. Accounted(r, t, host)
      BY <1>1, <3>1, SameAccounts DEF RunStands
    <3>3. \A q \in Sprouts : t.fruit.branch = q /\ q # r => run[q].phase \in {"over", "dead"}
      BY <2>3, <2>4, <3>1 DEF RunStands, OthersRest, UnderWay, Growth!UnderWay
    <3> QED
      BY <1>1, <2>3, <3>1, <3>2, <3>3, <3>4 DEF RunStands
  <2>5. ASSUME alone, OthersRest(r), deaths = 0 PROVE Tidies(r, t, host)
    BY <1>1, <2>3, <2>5, QuietIs, QuietTidies DEF Away
  <2>6. OnGround(r, t, host) /\ UnderWay(r)
    BY <1>1, <2>3 DEF OnGround, UnderWay, Growth!UnderWay
  <2> QED
    BY <1>2, <2>3, <2>4, <2>5, <2>6, TypesAre, MoveKeeps
<1>3. CASE Growth!Move(r, Growth!Failing(s, "clearing"), host) /\ Growth!Faulty
  <2>1. Growth!Failing(s, "clearing") \in Growers /\ Like(Growth!Failing(s, "clearing"), s)
        /\ Growth!Failing(s, "clearing").phase = "clearing"
    BY <1>1, FailingIs DEF Growth!Phase
  <2> QED
    BY <1>1, <1>3, <2>1, QuietIs, QuietKeeps DEF Early, HasBasis, Like, OnGround
<1> QED
  BY <1>2, <1>3 DEF Growth!Record

\* A graft or an integration: only the tip of the branch moves, and forward.
LEMMA TipMoves ==
  ASSUME GrowthInv, NEW r \in Sprouts, UnderWay(r), NEW s \in Growers, NEW h \in Hosts,
         NEW b \in Branches, NEW c \in SUBSET Sprouts,
         h.head = host.head /\ h.exists = host.exists /\ h.tip = [host.tip EXCEPT ![b] = c]
         /\ h.base = host.base /\ h.owned = host.owned /\ h.dirty = host.dirty /\ h.stash = host.stash,
         host.tip[b] \subseteq c, Growth!Move(r, s, h), Growth!Sound \/ Growth!Faulty,
         s.phase = "clearing", OnGround(r, s, h), s.committed, s.stashed = run[r].stashed,
         s.lost = run[r].lost, s.kind = run[r].kind,
         s.fruit = run[r].fruit,
         alone => b # Main /\ Midway(r, s, h) /\ Clean(h)
  PROVE  GrowthInv'
<1>1. ASSUME alone, OthersRest(r) PROVE RunStands(r, s, h)
  <2>1. RunStands(r, run[r], host)
    BY <1>1, OneRun
  <2>2. /\ host.tip \in [Branches -> SUBSET Sprouts] /\ Main \in Branches
        /\ h.tip[Main] = host.tip[Main] /\ \A d \in Branches : host.tip[d] \subseteq h.tip[d]
    BY <1>1, TypesAre, HostIs DEF Branches
  <2>3. Accounted(r, s, h)
    <3>1. Growth!Kept(h) = Growth!Kept(host)
      BY TypesAre, KeptOfSame
    <3> QED
      BY <2>1, <3>1, SameAccounts DEF RunStands, UnderWay, Growth!UnderWay
  <2> QED
    BY <1>1, <2>1, <2>2, <2>3 DEF RunStands
<1>2. ASSUME alone, OthersRest(r), deaths = 0 PROVE Tidies(r, s, h)
  <2>1. Tidies(r, run[r], host)
    BY <1>2, OneRun
  <2> QED
    BY <2>1 DEF Tidies
<1> QED
  BY <1>1, <1>2, MoveKeeps

LEMMA GraftKeeps == ASSUME GrowthInv, NEW r \in Sprouts, Growth!Graft(r) PROVE GrowthInv'
<1> DEFINE s == run[r]
           c == s.basis \cup {r}
           f == [s.fruit EXCEPT !.state = "failed"]
           no == Growth!Refused(s)
<1>1. s.phase = "recorded" /\ s \in Growers /\ OnGround(r, s, host) /\ s.basis \subseteq Sprouts
  BY EarlyGround, Terms DEF Growth!Graft, Early
<1>2. UnderWay(r)
  BY <1>1 DEF UnderWay, Growth!UnderWay
<1>3. CASE Growth!CanForward(host, c) /\ Growth!Move(r, Growth!To(s, "clearing"), Growth!Forwarded(host, c))
           /\ Growth!Sound
  <2> DEFINE t == Growth!To(s, "clearing")
             h == Growth!Forwarded(host, c)
  <2>1. t \in Growers /\ t.phase = "clearing" /\ Like(t, s)
    BY <1>1, ToIs DEF Growth!Phase
  <2>2. host.head \in Branches /\ c \in SUBSET Sprouts
    BY <1>1, TypesAre, HostIs
  <2>3. /\ h \in Hosts /\ h.trees = host.trees
        /\ h.head = host.head /\ h.exists = host.exists /\ h.tip = [host.tip EXCEPT ![host.head] = c]
        /\ h.base = host.base
        /\ h.owned = host.owned /\ h.dirty = host.dirty /\ h.stash = host.stash
    BY <2>2, TypesAre, GrownTipIs DEF Growth!Forwarded
  <2>4. host.tip[host.head] \subseteq c /\ \A e \in host.dirty, q \in c : ~Clash(e, q)
    BY <1>3, ObstructedIs DEF Growth!CanForward
  <2>5. OnGround(r, t, h)
    BY <1>1, <2>1, <2>3 DEF OnGround
  <2> HIDE DEF t, h, c
  <2>6. ASSUME alone PROVE host.head # Main /\ Midway(r, t, h) /\ t.committed /\ Clean(h)
    <3>1. Midway(r, s, host)
      BY <2>6 DEF GrowthInv, CheckoutStands
    <3>2. s.kind = "sprout"
      BY <1>1, <3>1, Terms DEF Midway
    <3>3. s.fruit = [branch |-> host.head, state |-> "local-only"] /\ s.committed
          /\ host.head # Main /\ s.from \in {Main, r}
      BY <1>1, <3>1, <3>2 DEF Midway, Away
    <3>4. host.head \in host.exists
      BY <2>6 DEF GrowthInv, CheckoutStands
    <3>5. h.tip[host.head] = c /\ r \in c
      BY <2>2, <2>3, TypesAre, HostIs DEF c
    <3>6. c \subseteq host.tip[host.head] \cup {r}
      BY <1>1, <3>1, <3>2 DEF Midway, HasBasis, c
    <3>7. s.stashed => Entry(r, t, h)
      BY <2>1, <2>3, <3>1, <3>3, <3>5, <3>6 DEF Midway, Entry, Like
    <3>8. Clean(h)
      BY <2>3, <2>4, <3>5 DEF Clean
    <3> QED
      BY <2>1, <2>3, <3>1, <3>2, <3>3, <3>4, <3>5, <3>7, <3>8 DEF Midway, Away, Like, HasBasis
  <2>7. CASE alone
    BY <1>2, <1>3, <2>1, <2>2, <2>3, <2>4, <2>5, <2>6, <2>7, TipMoves DEF Like, t, h
  <2>8. CASE ~alone
    BY <1>2, <1>3, <2>1, <2>3, <2>5, <2>8, MoveKeeps DEF t, h
  <2> QED
    BY <2>7, <2>8, TypesAre
<1>4. CASE Growth!Move(r, no, host) /\ (Growth!Sound \/ Growth!Faulty)
  <2>1. Growth!Failing(s, "clearing") \in Growers /\ Like(Growth!Failing(s, "clearing"), s)
        /\ Growth!Failing(s, "clearing").phase = "clearing"
    BY <1>1, FailingIs DEF Growth!Phase
  <2>2. /\ no \in Growers /\ no.phase = "clearing" /\ no.kind = s.kind /\ no.from = s.from
        /\ no.stashed = s.stashed /\ no.committed = s.committed /\ no.lost = s.lost
        /\ no.fruit.state = "failed" /\ no.fruit.branch = s.fruit.branch
    BY <2>1 DEF Growth!Refused, Growers, Growth!RunState, Growth!Outcome, Like
  <2> QED
    BY <1>1, <1>4, <2>2, QuietIs, QuietKeeps DEF Early, HasBasis, OnGround
<1> QED
  BY <1>3, <1>4 DEF Growth!Graft

LEMMA IntegrateKeeps == ASSUME GrowthInv, NEW r \in Sprouts, Growth!Integrate(r) PROVE GrowthInv'
<1> DEFINE s == run[r]
           c == s.basis \cup {r}
           moved == [host EXCEPT !.tip[r] = s.basis \cup {r}]
           t == Growth!To(s, "clearing")
           u == Growth!Uncommitted(s)
<1>1. s.phase = "committed" /\ s.kind = "candidate" /\ s \in Growers /\ OnGround(r, s, host)
      /\ s.basis \subseteq Sprouts
  BY EarlyGround, Terms DEF Growth!Integrate, Early
<1>2. UnderWay(r) /\ r \in Branches /\ c \in SUBSET Sprouts /\ r # Main
  BY <1>1, NoMain DEF UnderWay, Growth!UnderWay, Branches
<1>3. t \in Growers /\ t.phase = "clearing" /\ Like(t, s)
  BY <1>1, ToIs DEF Growth!Phase
<1>4. u \in Growers /\ u.phase = "clearing" /\ Like(u, s)
  <2>1. Growth!Failing(s, "clearing") \in Growers /\ Like(Growth!Failing(s, "clearing"), s)
        /\ Growth!Failing(s, "clearing").phase = "clearing"
    BY <1>1, FailingIs DEF Growth!Phase
  <2> QED
    BY <2>1 DEF Growth!Uncommitted, Growers, Growth!RunState, Growth!Outcome, Like
<1>5. /\ moved \in Hosts /\ moved.trees = host.trees
      /\ moved.head = host.head /\ moved.exists = host.exists
      /\ moved.tip = [host.tip EXCEPT ![r] = c] /\ moved.base = host.base
      /\ moved.owned = host.owned /\ moved.dirty = host.dirty /\ moved.stash = host.stash
  BY <1>2, TypesAre, GrownTipIs
<1> HIDE DEF moved, t, u
<1>6. /\ Growth!Uprooted(moved, r) \in Hosts /\ Growth!Uprooted(moved, r).trees = host.trees \ {r}
      /\ Growth!Uprooted(moved, r).head = host.head /\ Growth!Uprooted(moved, r).exists = host.exists
      /\ Growth!Uprooted(moved, r).tip = [host.tip EXCEPT ![r] = c]
      /\ Growth!Uprooted(moved, r).base = host.base
      /\ Growth!Uprooted(moved, r).owned = host.owned /\ Growth!Uprooted(moved, r).dirty = host.dirty
      /\ Growth!Uprooted(moved, r).stash = host.stash
  BY <1>5, SmallStepsAre
<1>7. ASSUME alone, NEW v \in Growers, Like(v, s), v.phase = "clearing", NEW h, h.head = host.head,
             h.exists = host.exists, h.tip = [host.tip EXCEPT ![r] = c], h.dirty = host.dirty
      PROVE  v.committed /\ Midway(r, v, h) /\ Clean(h)
  <2>1. Midway(r, s, host)
    BY <1>7 DEF GrowthInv, CheckoutStands
  <2>2. s.fruit = [branch |-> "none", state |-> "none"] /\ s.committed /\ ~s.stashed
    BY <1>1, <2>1 DEF Midway
  <2>3. Clean(host) /\ host.head # r /\ host.head \in Branches
    BY <1>1, <1>2, <1>7, TypesAre, HostIs DEF GrowthInv, CheckoutStands
  <2>4. h.tip[h.head] = host.tip[host.head]
    BY <1>7, <2>3, TypesAre, HostIs
  <2>5. Clean(h)
    BY <1>7, <2>3, <2>4 DEF Clean
  <2> QED
    BY <1>1, <1>7, <2>2, <2>5 DEF Midway, Away, Like, HasBasis
<1>8. ASSUME Growth!Advances(s, r), NEW v \in Growers, Like(v, s), v.phase = "clearing",
             NEW h \in {moved, Growth!Uprooted(moved, r)}, Growth!Move(r, v, h), Growth!Sound \/ Growth!Faulty
      PROVE  GrowthInv'
  <2>1. /\ h \in Hosts /\ h.head = host.head /\ h.exists = host.exists
        /\ h.tip = [host.tip EXCEPT ![r] = c]
        /\ h.base = host.base /\ h.owned = host.owned /\ h.dirty = host.dirty /\ h.stash = host.stash
    BY <1>5, <1>6, <1>8
  <2>2. OnGround(r, v, h)
    BY <1>1, <1>5, <1>6, <1>8 DEF OnGround
  <2>3. host.tip[r] \subseteq c
    BY <1>8 DEF Growth!Advances
  <2> HIDE DEF c
  <2>4. CASE alone
    <3>1. v.committed /\ Midway(r, v, h) /\ Clean(h)
      BY <1>7, <1>8, <2>1, <2>4 DEF c
    <3> QED
      BY <1>2, <1>8, <2>1, <2>2, <2>3, <2>4, <3>1, TipMoves DEF Like
  <2>5. CASE ~alone
    BY <1>2, <1>8, <2>1, <2>2, <2>5, MoveKeeps
  <2> QED
    BY <2>4, <2>5, TypesAre
<1>9. CASE Growth!Move(r, u, host) /\ (Growth!Sound \/ Growth!Faulty)
  BY <1>1, <1>4, <1>9, QuietIs, QuietKeeps DEF Early, HasBasis, Like, OnGround
<1> QED
  BY <1>3, <1>4, <1>8, <1>9 DEF Growth!Integrate, Growth!Tampered, moved, t, u

LEMMA StashStepKeeps == ASSUME GrowthInv, NEW r \in Sprouts, Growth!Stash(r) PROVE GrowthInv'
<1> DEFINE s == run[r]
           t == [Growth!To(s, "stashed") EXCEPT !.stashed = TRUE]
           h == Growth!Stashed(host, r)
<1>1. s.phase = "isolated" /\ s \in Growers /\ OnGround(r, s, host)
  BY EarlyGround DEF Growth!Stash, Early
<1>2. /\ Growth!To(s, "stashed") \in Growers /\ Growth!To(s, "stashed").phase = "stashed"
      /\ Like(Growth!To(s, "stashed"), s)
  BY <1>1, ToIs DEF Growth!Phase
<1>3. CASE s.kind = "sprout" /\ Growth!Move(r, t, h) /\ Growth!Sound
  <2>1. /\ t \in Growers /\ t.phase = "stashed" /\ t.kind = s.kind /\ t.from = s.from
        /\ t.stashed = TRUE /\ t.committed = s.committed /\ t.lost = s.lost /\ t.fruit = s.fruit
    BY <1>2 DEF Growers, Growth!RunState, Like
  <2>2. /\ h \in Hosts /\ h.trees = host.trees
        /\ h.head = host.head /\ h.exists = host.exists /\ h.tip = host.tip /\ h.base = host.base
        /\ h.owned = host.owned /\ Growth!Kept(h) = Growth!Kept(host) /\ h.dirty = {}
        /\ Len(h.stash) = Len(host.stash) + 1
    BY TypesAre, StashedIs, StashKeeps
  <2>6. h.stash # <<>> /\ Head(h.stash).edits = host.dirty
    <3>1. h.stash = <<[by |-> r, edits |-> host.dirty]>> \o host.stash /\ host.stash \in Seq(Entries)
      BY TypesAre, StashedIs, HostIs
    <3> HIDE DEF h
    <3> QED
      BY <3>1
  <2> HIDE DEF t, h
  <2>3. OnGround(r, t, h) /\ UnderWay(r)
    BY <1>1, <2>1, <2>2 DEF OnGround, UnderWay, Growth!UnderWay
  <2>4. ASSUME alone, OthersRest(r) PROVE RunStands(r, t, h)
    <3>1. RunStands(r, s, host)
      BY <2>4, OneRun
    <3>2. Midway(r, t, h)
      <4>1. Entry(r, t, h) /\ Clean(h)
        BY <2>2, <2>6, <3>1 DEF RunStands, Clean, Entry
      <4> QED
        BY <1>1, <1>3, <2>1, <2>2, <3>1, <4>1 DEF RunStands, Midway, Away, HasBasis
    <3>3. Accounted(r, t, h) /\ Clean(h)
      BY <1>1, <2>2, <3>1, SameAccounts DEF RunStands, Clean
    <3> QED
      BY <2>1, <2>2, <3>1, <3>2, <3>3 DEF RunStands
  <2>5. ASSUME alone, OthersRest(r), deaths = 0 PROVE Tidies(r, t, h)
    <3>1. Tidies(r, s, host) /\ Midway(r, s, host)
      BY <2>5, OneRun DEF RunStands
    <3>2. ~s.stashed
      BY <1>1, <3>1 DEF Midway
    <3>3. Len(<<>>) = 0
      OBVIOUS
    <3>4. Growth!NoWork(h, r) <=> Growth!NoWork(host, r)
      BY <2>2 DEF Growth!NoWork
    <3>5. Away(t) <=> Away(s)
      BY <1>1, <2>1 DEF Away
    <3> QED
      BY <2>1, <2>2, <3>1, <3>2, <3>3, <3>4, <3>5 DEF Tidies
  <2> QED
    BY <1>3, <2>1, <2>2, <2>3, <2>4, <2>5, MoveKeeps DEF t, h
<1>4. CASE Growth!Move(r, Growth!Failing(s, "clearing"), host) /\ Growth!Faulty
  <2>1. Growth!Failing(s, "clearing") \in Growers /\ Like(Growth!Failing(s, "clearing"), s)
        /\ Growth!Failing(s, "clearing").phase = "clearing"
    BY <1>1, FailingIs DEF Growth!Phase
  <2> QED
    BY <1>1, <1>4, <2>1, QuietIs, QuietKeeps DEF Early, HasBasis, Like, OnGround
<1>5. CASE Growth!Move(r, Growth!To(s, "stashed"), host) /\ Growth!Sound
  BY <1>1, <1>2, <1>5, QuietIs, QuietKeeps DEF Early, HasBasis, Like, OnGround
<1> QED
  BY <1>3, <1>4, <1>5 DEF Growth!Stash

LEMMA ClearKeeps == ASSUME GrowthInv, NEW r \in Sprouts, Growth!Clear(r) PROVE GrowthInv'
<1> DEFINE s == run[r]
           x == IF Growth!Reclaimable(s, r) THEN "returning" ELSE "restoring"
           t == [Growth!To(s, x) EXCEPT !.session = FALSE]
           h == Growth!Uprooted(host, r)
<1>1. s.phase = "clearing" /\ s \in Growers /\ Growth!Move(r, t, h) /\ Growth!Sound /\ UnderWay(r)
  BY TypesAre DEF Growth!Clear, UnderWay, Growth!UnderWay
<1>2. t \in Growers /\ t.phase = x /\ Like(t, s)
  <2>1. x \in Growth!Phase
    BY DEF Growth!Phase
  <2> HIDE DEF x
  <2>2. Growth!To(s, x) \in Growers /\ Growth!To(s, x).phase = x /\ Like(Growth!To(s, x), s)
    BY <1>1, <2>1, ToIs
  <2> QED
    BY <2>2 DEF Growers, Growth!RunState, Like
<1> HIDE DEF t
<1>3. Quiet(h) /\ h \in Hosts /\ h.trees = host.trees \ {r}
  BY TypesAre, QuietIs, SmallStepsAre
<1>4. OnGround(r, t, h)
  BY <1>2, <1>3 DEF OnGround
<1>5. Growth!NoWork(h, r) <=> Growth!NoWork(host, r)
  BY <1>3 DEF Quiet, Growth!NoWork
<1>6. Growth!Reclaimable(s, r) <=> s.kind = "sprout" /\ s.from # r /\ Growth!NoWork(host, r)
  BY DEF Growth!Reclaimable
<1> HIDE DEF h
<1>7. ASSUME alone, OthersRest(r) PROVE RunStands(r, t, h)
  <2>1. Midway(r, s, host)
    BY <1>7 DEF GrowthInv, CheckoutStands
  <2>2. Midway(r, t, h)
    BY <1>1, <1>2, <1>3, <1>5, <1>6, <2>1 DEF Midway, Away, Like, Quiet, Entry, HasBasis
  <2> QED
    BY <1>1, <1>2, <1>3, <1>7, <2>2, QuietStands DEF Like
<1>8. ASSUME alone, OthersRest(r), deaths = 0 PROVE Tidies(r, t, h)
  <2>1. Tidies(r, s, host) /\ Midway(r, s, host)
    BY <1>8, OneRun DEF RunStands
  <2>2. CASE Growth!Reclaimable(s, r)
    <3>1. Away(t) /\ Away(s)
      BY <1>1, <1>2, <1>6, <2>2 DEF Away, Like
    <3> QED
      BY <1>2, <1>3, <1>8, <3>1, QuietTidies DEF Like
  <2>3. CASE ~Growth!Reclaimable(s, r)
    <3>1. ~Away(t) /\ (Away(s) <=> s.kind = "sprout") /\ s.kind \in {"sprout", "candidate"}
      BY <1>1, <1>2, <2>3, Terms DEF Away
    <3>2. Main # r
      BY NoMain
    <3>3. s.from = Main /\ Growth!NoWork(host, r) => s.kind = "candidate"
      BY <1>6, <2>3, <3>1, <3>2
    <3> QED
      BY <1>2, <1>3, <2>1, <3>1, <3>3 DEF Tidies, Like, Quiet
  <2> QED
    BY <2>2, <2>3
<1> QED
  BY <1>1, <1>2, <1>3, <1>4, <1>7, <1>8, MoveKeeps DEF h

LEMMA ReturnKeeps == ASSUME GrowthInv, NEW r \in Sprouts, Growth!Return(r) PROVE GrowthInv'
<1> DEFINE s == run[r]
           g == Growth!CheckedOut(host, s.from)
           h == Growth!Deleted(g, r)
           t == Growth!To(s, "restoring")
           u == [t EXCEPT !.lost = TRUE]
<1>1. s.phase = "returning" /\ s \in Growers /\ UnderWay(r) /\ s.from \in Branches /\ host \in Hosts
  BY TypesAre, Terms DEF Growth!Return, UnderWay, Growth!UnderWay
<1>2. t \in Growers /\ t.phase = "restoring" /\ Like(t, s)
  BY <1>1, ToIs DEF Growth!Phase
<1>3. /\ u \in Growers /\ u.phase = "restoring" /\ u.lost /\ u.kind = s.kind /\ u.from = s.from
      /\ u.stashed = s.stashed /\ u.committed = s.committed /\ u.fruit = s.fruit
  BY <1>2 DEF Growers, Growth!RunState, Like
<1>4. /\ g \in Hosts /\ g.trees = host.trees
      /\ g.head = s.from /\ g.exists = host.exists /\ g.tip = host.tip /\ g.base = host.base
      /\ g.owned = host.owned /\ g.dirty = host.dirty /\ g.stash = host.stash
  BY <1>1, CheckedOutIs
<1>5. /\ h \in Hosts /\ h.trees = host.trees
      /\ h.head = s.from /\ h.exists = host.exists \ {r} /\ h.tip = host.tip /\ h.base = host.base
      /\ h.owned = host.owned \ {r} /\ h.dirty = host.dirty /\ h.stash = host.stash
  BY <1>4, SmallStepsAre
<1>6. \/ Growth!Move(r, t, h) /\ Growth!Sound
      \/ Growth!Move(r, u, g) /\ Growth!Faulty
      \/ Growth!Move(r, u, host) /\ (Growth!Sound \/ Growth!Faulty)
  BY DEF Growth!Return
<1> HIDE DEF g, h, t, u
<1>7. r \notin host.trees
  BY <1>1, OneRun DEF OnGround
<1>8. ASSUME alone PROVE /\ RunStands(r, s, host) /\ s.from = Main /\ Main # r
                         /\ (s.fruit.state = "local-only" => s.fruit.branch # r)
                         /\ host.tip[Main] = {} /\ s.kind = "sprout"
  <2>1. RunStands(r, s, host)
    BY <1>8, OneRun
  <2>2. s.from = Main /\ host.tip[r] \subseteq host.base[r] /\ host.base[r] = {}
    BY <1>1, <2>1 DEF RunStands, Midway, Growth!NoWork
  <2>3. s.fruit.state = "local-only" => r \in host.tip[s.fruit.branch]
    BY <1>1, <2>1 DEF RunStands, Midway
  <2>4. s.kind = "sprout"
    BY <1>1, <2>1, Terms DEF RunStands, Midway
  <2> QED
    BY <2>1, <2>2, <2>3, <2>4, NoMain DEF RunStands
<1>9. CASE Growth!Move(r, t, h) /\ Growth!Sound
  <2>1. ASSUME alone, OthersRest(r) PROVE RunStands(r, t, h)
    <3>1. RunStands(r, s, host) /\ s.from = Main /\ Main # r
          /\ (s.fruit.state = "local-only" => s.fruit.branch # r)
          /\ host.tip[Main] = {}
      BY <1>8, <2>1
    <3>2. Midway(r, t, h)
      BY <1>1, <1>2, <1>5, <3>1 DEF RunStands, Midway, Away, Like, Entry, HasBasis
    <3>3. Accounted(r, t, h) /\ Clean(h)
      <4>1. Growth!Kept(h) = Growth!Kept(host)
        BY <1>1, <1>5, KeptOfSame
      <4>2. Clean(h)
        BY <1>5, <3>1 DEF Clean
      <4> QED
        BY <1>1, <3>1, <4>1, <4>2, SameAccounts DEF RunStands
    <3>4. h.head = Main /\ Main \in h.exists /\ Main \notin Sprouts
      BY <1>5, <3>1, NoMain DEF RunStands
    <3> QED
      BY <1>2, <1>5, <3>1, <3>2, <3>3, <3>4 DEF RunStands, Like
  <2>2. ASSUME alone, OthersRest(r), deaths = 0 PROVE Tidies(r, t, h)
    <3>1. Tidies(r, s, host) /\ s.from = Main
      BY <1>8, <2>2, OneRun
    <3> QED
      BY <1>2, <1>5, <3>1 DEF Tidies, Like, Away
  <2> QED
    BY <1>1, <1>2, <1>5, <1>7, <1>9, <2>1, <2>2, MoveKeeps DEF OnGround
<1>10. ASSUME NEW k \in {g, host}, Growth!Move(r, u, k), Growth!Sound \/ Growth!Faulty PROVE GrowthInv'
  <2>1. /\ k \in Hosts /\ k.trees = host.trees /\ k.head \in {s.from, host.head}
        /\ k.exists = host.exists /\ k.tip = host.tip /\ k.base = host.base
        /\ k.dirty = host.dirty /\ k.stash = host.stash
    BY <1>1, <1>4, <1>10
  <2>2. ASSUME alone, OthersRest(r) PROVE RunStands(r, u, k)
    <3>1. RunStands(r, s, host) /\ s.from = Main /\ Main # r /\ host.tip[Main] = {} /\ s.kind = "sprout"
      BY <1>8, <2>2
    <3>2. Midway(r, u, k)
      BY <1>1, <1>3, <2>1, <3>1 DEF RunStands, Midway, Away, Entry, HasBasis
    <3>3. Accounted(r, u, k) /\ Clean(k)
      <4>1. Growth!Kept(k) = Growth!Kept(host)
        BY <1>1, <2>1, KeptOfSame
      <4>2. Clean(k)
        BY <2>1, <3>1 DEF Clean, RunStands
      <4> QED
        BY <1>1, <3>1, <4>1, <4>2, SameAccounts DEF RunStands
    <3> QED
      BY <1>3, <2>1, <3>1, <3>2, <3>3, NoMain DEF RunStands
  <2>3. Tidies(r, u, k)
    BY <1>3 DEF Tidies
  <2> QED
    BY <1>1, <1>3, <1>7, <1>10, <2>1, <2>2, <2>3, MoveKeeps DEF OnGround
<1> QED
  BY <1>6, <1>9, <1>10

\* The end of a run: nothing is left but what it announces.
LEMMA OverStands ==
  ASSUME GrowthInv, alone, NEW r \in Sprouts, run[r].phase \in {"idle", "restoring", "dropping"},
         NEW s \in Growers, s.phase = "over", s.kind = run[r].kind, ~s.stashed,
         s.fruit = run[r].fruit, NEW h \in Hosts,
         h.head = host.head /\ h.exists = host.exists /\ h.tip = host.tip /\ h.base = host.base,
         Clean(h), Growth!Kept(h) \subseteq Growth!Kept(host),
         \A e \in Growth!Kept(host) \ Growth!Kept(h) : s.committed /\ Clash(e, r)
  PROVE  RunStands(r, s, h)
<1>1. RunStands(r, run[r], host)
  BY OneRun
<1>2. Midway(r, s, h)
  BY <1>1 DEF RunStands, Midway, Away, HasBasis
<1>3. Accounted(r, s, h)
  BY <1>1 DEF RunStands, Accounted, Overwrote
<1> QED
  BY <1>1, <1>2, <1>3 DEF RunStands

LEMMA StillClean == ASSUME GrowthInv, alone PROVE Clean(host)
BY DEF GrowthInv, CheckoutStands

LEMMA OverTidies ==
  ASSUME GrowthInv, alone, deaths = 0, NEW r \in Sprouts, OthersRest(r),
         run[r].phase \in {"idle", "restoring", "dropping"},
         NEW s \in Growers, s.phase = "over", s.kind = run[r].kind, ~s.stashed,
         s.committed = run[r].committed, ~s.lost => ~run[r].lost, NEW h \in Hosts,
         h.head = host.head /\ h.exists = host.exists,
         s.lost \/ (IF run[r].stashed THEN h.stash = Tail(host.stash) ELSE h.stash = host.stash)
  PROVE  Tidies(r, s, h)
<1>1. Tidies(r, run[r], host)
  BY OneRun
<1>2. ~Away(run[r]) /\ ~Away(s)
  BY DEF Away
<1>3. ASSUME Len(host.stash) = 1 PROVE Tail(host.stash) = <<>>
  <2>1. host.stash \in Seq(Entries) /\ host.stash # <<>>
    <3>1. host.stash = <<>> => Len(host.stash) = 0
      OBVIOUS
    <3> QED
      BY <1>3, <3>1, TypesAre, HostIs
  <2>2. Tail(host.stash) \in Seq(Entries) /\ Len(Tail(host.stash)) = 0
    BY <1>3, <2>1, HeadTailProperties
  <2> QED
    BY <2>2, EmptySeq
<1> QED
  BY <1>1, <1>2, <1>3 DEF Tidies

LEMMA RestoreKeeps == ASSUME GrowthInv, NEW r \in Sprouts, Growth!Restore(r) PROVE GrowthInv'
<1> DEFINE s == run[r]
           a == Growth!Announced(s)
           u == Growth!Unrestored(s)
           d == Growth!To(s, "dropping")
<1>1. s.phase = "restoring" /\ s \in Growers /\ UnderWay(r) /\ host \in Hosts /\ r \notin host.trees
  BY TypesAre, OneRun DEF Growth!Restore, UnderWay, Growth!UnderWay, OnGround
<1>2. /\ a \in Growers /\ a.phase = "over" /\ a.kind = s.kind /\ ~a.stashed
      /\ a.committed = s.committed /\ a.fruit = s.fruit /\ a.lost = s.lost
  BY <1>1, AnnouncedIs
<1>3. /\ u \in Growers /\ u.phase = "over" /\ u.kind = s.kind /\ ~u.stashed
      /\ u.committed = s.committed /\ u.fruit = s.fruit /\ u.lost = TRUE
  <2> DEFINE v == [s EXCEPT !.error = TRUE, !.lost = TRUE]
  <2>1. v \in Growers /\ v.kind = s.kind /\ v.committed = s.committed /\ v.fruit = s.fruit /\ v.lost = TRUE
    BY <1>1 DEF Growers, Growth!RunState
  <2>2. u = Growth!Announced(v)
    BY DEF Growth!Unrestored
  <2> HIDE DEF v
  <2> QED
    BY <2>1, <2>2, AnnouncedIs
<1>4. d \in Growers /\ d.phase = "dropping" /\ Like(d, s)
  BY <1>1, ToIs DEF Growth!Phase
<1> HIDE DEF a, u, d
<1>5. CASE ~s.stashed /\ Growth!Move(r, a, host) /\ Growth!Sound
  BY <1>1, <1>2, <1>5, StillClean, OverStands, OverTidies, MoveKeeps DEF OnGround
<1>6. CASE /\ s.stashed /\ Growth!CanPop(host) /\ Growth!Overrun(host) = {}
           /\ Growth!Move(r, a, Growth!Popped(host)) /\ Growth!Sound
  <2> DEFINE l == Growth!Laid(host)
             h == Growth!Dropped(l)
  <2>1. host.stash # <<>> /\ Growth!Popped(host) = h
    BY <1>6 DEF Growth!CanPop, Growth!Popped
  <2>2. /\ l \in Hosts /\ l.trees = host.trees
        /\ l.head = host.head /\ l.exists = host.exists /\ l.tip = host.tip /\ l.base = host.base
        /\ l.dirty = host.dirty \cup Head(host.stash).edits /\ l.stash = host.stash
        /\ Growth!Kept(l) = Growth!Kept(host) /\ (Clean(host) => Clean(l))
    BY <1>1, <1>6, <2>1, LaidIs, LayKeeps
  <2> HIDE DEF l
  <2>3. /\ h \in Hosts /\ h.trees = host.trees
        /\ h.head = host.head /\ h.exists = host.exists /\ h.tip = host.tip /\ h.base = host.base
        /\ h.dirty = l.dirty
        /\ h.stash = Tail(host.stash) /\ Growth!Kept(h) = Growth!Kept(host)
    <3>1. l.stash # <<>> /\ Head(l.stash).edits \subseteq l.dirty
      BY <2>1, <2>2
    <3>2. Growth!Kept(h) \subseteq Growth!Kept(l) /\ Growth!Kept(l) \ Growth!Kept(h) = {}
      BY <2>2, <3>1, DropKeeps
    <3> QED
      BY <2>2, <3>1, <3>2, DroppedIs
  <2> HIDE DEF h
  <2>4. alone => Clean(h)
    BY <2>2, <2>3, StillClean DEF Clean
  <2> QED
    BY <1>1, <1>2, <1>6, <2>1, <2>3, <2>4, OverStands, OverTidies, MoveKeeps DEF OnGround
<1>7. CASE Growth!Move(r, u, host) /\ (Growth!Sound \/ Growth!Faulty)
  BY <1>1, <1>3, <1>7, StillClean, OverStands, OverTidies, MoveKeeps DEF OnGround
<1>8. CASE /\ s.stashed /\ Growth!CanPop(host)
           /\ Growth!Move(r, d, Growth!Laid(host)) /\ (Growth!Sound \/ Growth!Faulty)
  <2> DEFINE l == Growth!Laid(host)
  <2>1. host.stash # <<>>
    BY <1>8 DEF Growth!CanPop
  <2>2. /\ l \in Hosts /\ l.trees = host.trees
        /\ l.head = host.head /\ l.exists = host.exists /\ l.tip = host.tip /\ l.base = host.base
        /\ l.owned = host.owned /\ l.stash = host.stash
        /\ Growth!Kept(l) = Growth!Kept(host) /\ (Clean(host) => Clean(l))
        /\ \A e \in Head(host.stash).edits : e \in l.dirty \/ \E q \in host.tip[host.head] : Clash(e, q)
    BY <1>1, <2>1, LaidIs, LayKeeps
  <2> HIDE DEF l
  <2>3. ASSUME alone, OthersRest(r) PROVE RunStands(r, d, l)
    <3>1. RunStands(r, s, host)
      BY <2>3, OneRun
    <3>2. Midway(r, d, l)
      BY <1>1, <1>4, <1>8, <2>1, <2>2, <3>1 DEF RunStands, Midway, Away, Like, Entry, HasBasis
    <3>3. Accounted(r, d, l)
      BY <1>1, <2>2, <3>1, SameAccounts DEF RunStands
    <3> QED
      BY <1>4, <2>2, <3>1, <3>2, <3>3 DEF RunStands, Like
  <2>4. ASSUME alone, OthersRest(r), deaths = 0 PROVE Tidies(r, d, l)
    <3>1. Tidies(r, s, host)
      BY <2>4, OneRun
    <3> QED
      BY <1>1, <1>4, <2>2, <3>1 DEF Tidies, Away, Like
  <2> QED
    BY <1>1, <1>4, <1>8, <2>2, <2>3, <2>4, MoveKeeps DEF OnGround, l
<1> QED
  BY <1>5, <1>6, <1>7, <1>8 DEF Growth!Restore, a, u, d

LEMMA DropKeepsAll == ASSUME GrowthInv, NEW r \in Sprouts, Growth!DropRedundant(r) PROVE GrowthInv'
<1> DEFINE s == run[r]
           a == Growth!Announced(s)
           u == Growth!Unrestored(s)
           h == Growth!Dropped(host)
<1>1. s.phase = "dropping" /\ s \in Growers /\ UnderWay(r) /\ host \in Hosts /\ r \notin host.trees
  BY TypesAre, OneRun DEF Growth!DropRedundant, UnderWay, Growth!UnderWay, OnGround
<1>2. /\ a \in Growers /\ a.phase = "over" /\ a.kind = s.kind /\ ~a.stashed
      /\ a.committed = s.committed /\ a.fruit = s.fruit /\ a.lost = s.lost
  BY <1>1, AnnouncedIs
<1>3. /\ u \in Growers /\ u.phase = "over" /\ u.kind = s.kind /\ ~u.stashed
      /\ u.committed = s.committed /\ u.fruit = s.fruit /\ u.lost = TRUE
  <2> DEFINE v == [s EXCEPT !.error = TRUE, !.lost = TRUE]
  <2>1. v \in Growers /\ v.kind = s.kind /\ v.committed = s.committed /\ v.fruit = s.fruit /\ v.lost = TRUE
    BY <1>1 DEF Growers, Growth!RunState
  <2>2. u = Growth!Announced(v)
    BY DEF Growth!Unrestored
  <2> HIDE DEF v
  <2> QED
    BY <2>1, <2>2, AnnouncedIs
<1> HIDE DEF a, u
<1>5. CASE Growth!CanPop(host) /\ Growth!Move(r, a, h) /\ Growth!Sound
  <2>1. host.stash # <<>>
    BY <1>5 DEF Growth!CanPop
  <2>2. /\ h \in Hosts /\ h.trees = host.trees
        /\ h.head = host.head /\ h.exists = host.exists /\ h.tip = host.tip /\ h.base = host.base
        /\ h.stash = Tail(host.stash)
    BY <1>1, <2>1, DroppedIs
  <2>4. /\ Growth!Kept(h) \subseteq Growth!Kept(host) /\ h.dirty = host.dirty
        /\ Growth!Kept(host) \ Growth!Kept(h) \subseteq Head(host.stash).edits \ host.dirty
    BY <1>1, <2>1, DroppedIs, DropKeeps
  <2> HIDE DEF h
  <2>3. ASSUME alone
        PROVE  /\ s.stashed /\ Clean(h)
               /\ \A e \in Growth!Kept(host) \ Growth!Kept(h) : s.committed /\ Clash(e, r)
    <3>1. Midway(r, s, host) /\ Clean(host)
      BY <2>3 DEF GrowthInv, CheckoutStands
    <3>2. s.stashed /\ Entry(r, s, host)
      BY <1>1, <3>1 DEF Midway
    <3>3. \A e \in Head(host.stash).edits : e \in host.dirty \/ \E q \in host.tip[host.head] : Clash(e, q)
      BY <1>1, <3>1 DEF Midway
    <3>4. \A e \in Growth!Kept(host) \ Growth!Kept(h) : s.committed /\ Clash(e, r)
      BY <2>4, <3>2, <3>3 DEF Entry
    <3> QED
      BY <2>2, <2>4, <3>1, <3>2, <3>4 DEF Clean
  <2> QED
    BY <1>1, <1>2, <1>5, <2>2, <2>3, <2>4, OverStands, OverTidies, MoveKeeps DEF OnGround
<1>6. CASE Growth!Move(r, u, host) /\ (Growth!Sound \/ Growth!Faulty)
  BY <1>1, <1>3, <1>6, StillClean, OverStands, OverTidies, MoveKeeps DEF OnGround
<1> QED
  BY <1>5, <1>6 DEF Growth!DropRedundant, a, u

\* A run that is called, whatever it finds.
CalledTo(r) == [Growth!To(run[r], "isolated") EXCEPT !.from = host.head]

LEMMA CalledIs ==
  ASSUME GrowthInv, NEW r \in Sprouts, run[r].phase = "idle"
  PROVE  LET s == CalledTo(r)
         IN  /\ s \in Growers /\ s.phase = "isolated" /\ s.from = host.head /\ s.kind = run[r].kind
             /\ s.stashed = run[r].stashed /\ s.committed = run[r].committed
             /\ s.fruit = run[r].fruit /\ s.lost = run[r].lost
<1> DEFINE t == Growth!To(run[r], "isolated")
<1>1. host.head \in Branches /\ run[r] \in Growers
  BY TypesAre, HostIs
<1>2. t \in Growers /\ t.phase = "isolated" /\ Like(t, run[r])
  BY <1>1, ToIs DEF Growth!Phase
<1> HIDE DEF t
<1>3. CalledTo(r) = [t EXCEPT !.from = host.head]
  BY DEF CalledTo, t
<1>4. [t EXCEPT !.from = host.head] \in Growers
  BY <1>1, <1>2 DEF Growers, Growth!RunState, Branches, Growth!Branch
<1>5. LET s == [t EXCEPT !.from = host.head]
      IN  /\ s.phase = t.phase /\ s.from = host.head /\ s.kind = t.kind
          /\ s.stashed = t.stashed /\ s.committed = t.committed /\ s.fruit = t.fruit /\ s.lost = t.lost
  BY <1>2 DEF Growers, Growth!RunState
<1> QED
  BY <1>2, <1>3, <1>4, <1>5 DEF Like

\* What isolation leaves of the run and the checkout.
LEMMA IsolationStands ==
  ASSUME GrowthInv, alone, NEW r \in Sprouts, run[r].phase = "idle",
         NEW s \in Growers, s.phase = "isolated", s.kind = run[r].kind, s.fruit = run[r].fruit,
         s.stashed = run[r].stashed, NEW h \in Hosts,
         s.kind = "sprout" => h.head # Main /\ s.from \in {Main, r},
         h.head \in {host.head, r}, h.exists \in {host.exists, host.exists \cup {r}},
         h.head = r => r \in h.exists,
         \A b \in Branches : b # r => h.tip[b] = host.tip[b],
         h.head = r => s.kind = "sprout" /\ h.tip[r] \subseteq host.tip[host.head],
         \A q \in Sprouts : h.base[q] = {},
         h.dirty = host.dirty /\ h.stash = host.stash
  PROVE  RunStands(r, s, h)
<1>1. RunStands(r, run[r], host)
  BY OneRun
<1>2. Growth!Kept(h) = Growth!Kept(host)
  BY TypesAre, KeptOfSame
<1>3. ~run[r].stashed /\ run[r].fruit = [branch |-> "none", state |-> "none"]
  BY <1>1 DEF RunStands, Midway
<1>4. s.fruit.state = "none"
  BY <1>3
<1>5. Midway(r, s, h)
  BY <1>3, <1>4 DEF Midway, Away, HasBasis
<1>7. h.tip[h.head] \subseteq host.tip[host.head]
  BY TypesAre, HostIs
<1>8. Accounted(r, s, h) /\ Clean(h)
  BY <1>1, <1>2, <1>7, SameAccounts DEF RunStands, Clean
<1>6. Main \in Branches /\ Main # r /\ h.tip[Main] = {}
  BY <1>1, NoMain DEF Branches, RunStands
<1> QED
  BY <1>1, <1>5, <1>6, <1>8 DEF RunStands

LEMMA IsolationTidies ==
  ASSUME GrowthInv, alone, deaths = 0, NEW r \in Sprouts, OthersRest(r), run[r].phase = "idle",
         NEW s \in Growers, s.phase = "isolated", s.kind = run[r].kind, ~s.lost => ~run[r].lost,
         s.stashed = run[r].stashed, s.committed = run[r].committed, NEW h \in Hosts,
         h.head = host.head \/ s.kind = "sprout", h.exists \in {host.exists, host.exists \cup {r}},
         s.kind = "sprout" /\ host.head = Main /\ ~s.lost => s.from = Main /\ Growth!NoWork(h, r),
         h.stash = host.stash
  PROVE  Tidies(r, s, h)
<1>1. Tidies(r, run[r], host)
  BY OneRun
<1>2. ~Away(run[r]) /\ (Away(s) <=> s.kind = "sprout") /\ s.kind \in {"sprout", "candidate"}
  BY Terms DEF Away
<1> QED
  BY <1>1, <1>2 DEF Tidies

LEMMA CallKeeps == ASSUME GrowthInv, NEW r \in Sprouts, Growth!Call(r) PROVE GrowthInv'
<1> DEFINE s == CalledTo(r)
<1>1. /\ run[r].phase = "idle" /\ run[r] \in Growers /\ host \in Hosts /\ r \notin host.trees
      /\ alone' \in BOOLEAN /\ (alone' => alone /\ OthersRest(r)) /\ UNCHANGED <<written, deaths>>
  <2>1. run[r].phase = "idle" /\ UNCHANGED <<written, deaths>>
    BY DEF Growth!Call
  <2>2. alone' = (alone /\ \A o \in Sprouts \ {r} : ~UnderWay(o))
    BY DEF Growth!Call, UnderWay
  <2>3. r \notin host.trees
    BY <2>1, OneRun DEF OnGround
  <2> QED
    BY <2>1, <2>2, <2>3, TypesAre DEF OthersRest
<1>2. /\ s \in Growers /\ s.phase = "isolated" /\ s.from = host.head /\ s.kind = run[r].kind
      /\ s.stashed = run[r].stashed /\ s.committed = run[r].committed
      /\ s.fruit = run[r].fruit /\ s.lost = run[r].lost
  BY <1>1, CalledIs
<1>3. \/ Growth!Skip(r, s) \/ Growth!Refuse(r, s)
      \/ s.kind = "sprout" /\ Growth!BranchOff(r, s)
      \/ s.kind = "candidate" /\ Growth!OnSeed(r, s)
  BY DEF Growth!Call, CalledTo
<1> HIDE DEF s
<1>4. Growth!Sound \/ Growth!Faulty => trouble' \in 0 .. MaxTrouble
  <2>1. MaxTrouble \in Nat /\ trouble \in 0 .. MaxTrouble
    BY TypesAre, GrowthIsBounded DEF Growth!SproutRunAssumption
  <2> QED
    BY <2>1 DEF Growth!Sound, Growth!Faulty
<1>5. alone => RunStands(r, run[r], host) /\ ~run[r].stashed
  BY <1>1, OneRun DEF RunStands, Midway
<1>6. ASSUME NEW t \in Growers, t.kind = s.kind, t.fruit = s.fruit, t.lost = s.lost,
             t.committed = s.committed, Growth!Take(r, Growth!Announced(t), host),
             Growth!Sound \/ Growth!Faulty
      PROVE  GrowthInv'
  <2> DEFINE a == Growth!Announced(t)
  <2>1. /\ a \in Growers /\ a.phase = "over" /\ a.kind = run[r].kind /\ ~a.stashed
        /\ a.committed = run[r].committed /\ a.fruit = run[r].fruit /\ a.lost = run[r].lost
    BY <1>2, <1>6, AnnouncedIs
  <2>2. run' = [run EXCEPT ![r] = a] /\ host' = host
    BY <1>6 DEF Growth!Take
  <2> HIDE DEF a
  <2>3. OnGround(r, a, host)
    BY <1>1, <2>1 DEF OnGround
  <2>4. alone' => RunStands(r, a, host)
    BY <1>1, <2>1, StillClean, OverStands
  <2>5. alone' /\ deaths = 0 => Tidies(r, a, host)
    BY <1>1, <1>5, <2>1, OverTidies
  <2> QED
    BY <1>1, <1>4, <1>6, <2>1, <2>2, <2>3, <2>4, <2>5, StepKeeps
<1>7. ASSUME NEW t \in Growers, NEW h \in Hosts, run' = [run EXCEPT ![r] = t], host' = h,
             Growth!Sound \/ Growth!Faulty, t.phase = "isolated", h.trees = host.trees,
             alone' => RunStands(r, t, h), alone' /\ deaths = 0 => Tidies(r, t, h)
      PROVE  GrowthInv'
  <2>1. OnGround(r, t, h)
    BY <1>1, <1>7 DEF OnGround
  <2> QED
    BY <1>1, <1>4, <1>7, <2>1, StepKeeps
<1>8. CASE Growth!Skip(r, s)
  <2> DEFINE t == [s EXCEPT !.outcome = "skipped"]
  <2>1. /\ t \in Growers /\ t.kind = s.kind /\ t.fruit = s.fruit /\ t.lost = s.lost
        /\ t.committed = s.committed
    BY <1>2 DEF Growers, Growth!RunState, Growth!Outcome
  <2>2. Growth!Take(r, Growth!Announced(t), host) /\ Growth!Sound
    BY <1>8 DEF Growth!Skip
  <2> HIDE DEF t
  <2> QED
    BY <1>6, <2>1, <2>2
<1>9. CASE Growth!Refuse(r, s)
  <2> DEFINE t == [s EXCEPT !.error = TRUE]
  <2>1. /\ t \in Growers /\ t.kind = s.kind /\ t.fruit = s.fruit /\ t.lost = s.lost
        /\ t.committed = s.committed
    BY <1>2 DEF Growers, Growth!RunState
  <2>2. Growth!Take(r, Growth!Announced(t), host) /\ Growth!Faulty
    BY <1>9 DEF Growth!Refuse
  <2> HIDE DEF t
  <2> QED
    BY <1>6, <2>1, <2>2
<1>10. ASSUME s.kind = "sprout", host.head = Main, NEW t \in Growers, NEW reg \in BOOLEAN,
              t.phase = s.phase, t.kind = s.kind, t.from = s.from, t.stashed = s.stashed,
              t.committed = s.committed, t.fruit = s.fruit, t.lost = s.lost \/ t.lost,
              ~reg => t.lost, Growth!Take(r, t, Growth!Isolated(host, r, reg)),
              Growth!Sound \/ Growth!Faulty
       PROVE  GrowthInv'
  <2> DEFINE h == Growth!Isolated(host, r, reg)
  <2>1. /\ h \in Hosts /\ h.head = r /\ h.exists = host.exists \cup {r}
        /\ h.tip = [host.tip EXCEPT ![r] = host.tip[Main]]
        /\ h.base = [host.base EXCEPT ![r] = host.tip[Main]]
        /\ h.owned = IF reg THEN host.owned \cup {r} ELSE host.owned
        /\ h.dirty = host.dirty /\ h.stash = host.stash /\ h.trees = host.trees
    BY <1>1, <1>10, IsolatedIs
  <2>2. run' = [run EXCEPT ![r] = t] /\ host' = h
    BY <1>10 DEF Growth!Take
  <2> HIDE DEF h
  <2>3. /\ h.tip[r] = host.tip[Main] /\ h.base[r] = host.tip[Main]
        /\ \A b \in Branches : b # r => h.tip[b] = host.tip[b]
        /\ \A q \in Sprouts : q # r => h.base[q] = host.base[q]
    BY <1>1, <2>1, HostIs DEF Branches
  <2>8. /\ t \in Growers /\ t.phase = "isolated" /\ t.kind = "sprout" /\ t.kind = run[r].kind
        /\ t.from = Main /\ t.fruit = run[r].fruit
    BY <1>2, <1>10
  <2>9. t.stashed = run[r].stashed /\ t.committed = run[r].committed
    BY <1>2, <1>10
  <2>4. alone' => RunStands(r, t, h)
    <3>1. ASSUME alone' PROVE \A q \in Sprouts : h.base[q] = {}
      BY <1>1, <1>5, <2>3, <3>1 DEF RunStands
    <3>2. h.head # Main /\ h.head \in {host.head, r} /\ r \in h.exists
          /\ h.exists \in {host.exists, host.exists \cup {r}}
      BY <2>1, NoMain
    <3>3. h.tip[r] \subseteq host.tip[host.head] /\ \A b \in Branches : b # r => h.tip[b] = host.tip[b]
      BY <1>10, <2>3
    <3>4. h.dirty = host.dirty /\ h.stash = host.stash /\ h \in Hosts
      BY <2>1
    <3> QED
      BY <1>1, <2>8, <2>9, <3>1, <3>2, <3>3, <3>4, IsolationStands
  <2>5. ~t.lost => Growth!NoWork(h, r)
    <3>1. r \in h.owned \/ t.lost
      <4>1. CASE reg
        BY <2>1, <4>1
      <4>2. CASE ~reg
        BY <1>10, <4>2
      <4> QED
        BY <4>1, <4>2
    <3> QED
      BY <2>1, <2>3, <3>1 DEF Growth!NoWork
  <2>6. ~t.lost => ~run[r].lost
    <3>1. t.lost = s.lost \/ t.lost
      BY <1>10
    <3>2. s.lost = run[r].lost
      BY <1>2
    <3> QED
      BY <3>1, <3>2
  <2>7. alone' /\ deaths = 0 => Tidies(r, t, h)
    BY <1>1, <2>1, <2>5, <2>6, <2>8, <2>9, IsolationTidies
  <2>10. Growth!Sound \/ Growth!Faulty
    BY <1>10
  <2> QED
    BY <1>7, <2>1, <2>2, <2>4, <2>7, <2>8, <2>10
<1>11. CASE s.kind = "sprout" /\ Growth!BranchOff(r, s)
  <2>1. CASE Growth!Protected(host)
    <3> DEFINE t == [s EXCEPT !.lost = TRUE]
    <3>1. host.head = Main
      BY <2>1 DEF Growth!Protected
    <3>2. /\ t \in Growers /\ t.phase = s.phase /\ t.kind = s.kind /\ t.from = s.from
          /\ t.stashed = s.stashed /\ t.committed = s.committed /\ t.fruit = s.fruit /\ t.lost
      BY <1>2 DEF Growers, Growth!RunState
    <3>3. \/ Growth!Take(r, s, Growth!Isolated(host, r, TRUE)) /\ Growth!Sound
          \/ Growth!Take(r, t, Growth!Isolated(host, r, FALSE)) /\ Growth!Faulty
      BY <1>11, <2>1 DEF Growth!BranchOff
    <3> HIDE DEF t
    <3> QED
      BY <1>2, <1>10, <1>11, <3>1, <3>2, <3>3
  <2>2. CASE ~Growth!Protected(host)
    <3> DEFINE t == [s EXCEPT !.from = r]
    <3>1. host.head # Main
      BY <2>2 DEF Growth!Protected
    <3>2. /\ t \in Growers /\ t.phase = s.phase /\ t.kind = s.kind /\ t.from = r
          /\ t.stashed = s.stashed /\ t.committed = s.committed /\ t.fruit = s.fruit /\ t.lost = s.lost
      BY <1>2 DEF Growers, Growth!RunState, Growth!Branch
    <3>3. run' = [run EXCEPT ![r] = t] /\ host' = host /\ Growth!Sound
      BY <1>11, <2>2 DEF Growth!BranchOff, Growth!Take
    <3> HIDE DEF t
    <3>4. alone' => RunStands(r, t, host)
      <4>1. alone' => (\A q \in Sprouts : host.base[q] = {}) /\ host.head \in host.exists
        BY <1>1, <1>5 DEF RunStands
      <4>2. alone' => host.head # r
        BY <1>1 DEF GrowthInv, CheckoutStands
      <4> QED
        BY <1>1, <1>2, <3>1, <3>2, <4>1, <4>2, IsolationStands
    <3>5. alone' /\ deaths = 0 => Tidies(r, t, host)
      BY <1>1, <1>2, <3>1, <3>2, IsolationTidies
    <3> QED
      BY <1>1, <1>2, <1>7, <3>2, <3>3, <3>4, <3>5
  <2> QED
    BY <2>1, <2>2
<1>12. CASE s.kind = "candidate" /\ Growth!OnSeed(r, s)
  <2> DEFINE h == [host EXCEPT !.exists = @ \cup {r}, !.tip[r] = host.tip[host.head]]
  <2>1. /\ h \in Hosts /\ h.trees = host.trees
        /\ h.head = host.head /\ h.exists = host.exists \cup {r}
        /\ h.tip = [host.tip EXCEPT ![r] = host.tip[host.head]] /\ h.base = host.base
        /\ h.dirty = host.dirty /\ h.stash = host.stash
    BY <1>1, SeededIs
  <2>2. run' = [run EXCEPT ![r] = s] /\ host' = h /\ Growth!Sound
    BY <1>12 DEF Growth!OnSeed, Growth!Take
  <2> HIDE DEF h
  <2>3. \A b \in Branches : b # r => h.tip[b] = host.tip[b]
    BY <1>1, <2>1, HostIs
  <2>4. alone' => RunStands(r, s, h)
    <3>1. alone' => \A q \in Sprouts : h.base[q] = {}
      BY <1>1, <1>5, <2>1 DEF RunStands
    <3>2. alone' => host.head # r
      BY <1>1 DEF GrowthInv, CheckoutStands
    <3> QED
      BY <1>1, <1>2, <1>12, <2>1, <2>3, <3>1, <3>2, IsolationStands
  <2>5. alone' /\ deaths = 0 => Tidies(r, s, h)
    BY <1>1, <1>2, <1>12, <2>1, IsolationTidies
  <2> QED
    BY <1>2, <1>7, <2>1, <2>2, <2>4, <2>5
<1> QED
  BY <1>3, <1>8, <1>9, <1>11, <1>12

-----------------------------------------------------------------------------
\* The operator, the death of the process, and the whole.
LEMMA SwitchKeeps == ASSUME GrowthInv, Growth!SwitchBack PROVE GrowthInv'
<1> DEFINE h == Growth!CheckedOut(host, Main)
<1>1. /\ \A r \in Sprouts : ~Growth!UnderWay(r)
      /\ host' = h /\ UNCHANGED <<run, written, alone, trouble, deaths>>
  BY DEF Growth!SwitchBack
<1>2. /\ h \in Hosts /\ h.trees = host.trees
      /\ h.head = Main /\ h.exists = host.exists /\ h.tip = host.tip /\ h.base = host.base
      /\ h.owned = host.owned /\ h.dirty = host.dirty /\ h.stash = host.stash
  BY TypesAre, CheckedOutIs DEF Branches
<1> HIDE DEF h
<1>3. Growth!TypeOK'
  BY <1>1, <1>2, TypesAre DEF Growth!TypeOK, Hosts, Growers
<1>4. Ground'
  BY <1>1, <1>2 DEF GrowthInv, Ground, Growth!GrowingKeepsItsGround
<1>6. \A r \in Sprouts : ~Away(run[r]) /\ run[r].phase \in {"idle", "over", "dead"}
  BY <1>1 DEF UnderWay, Growth!UnderWay, Away
<1>7. ASSUME alone PROVE CheckoutStands'
  <2>1. CheckoutStands
    BY <1>7 DEF GrowthInv
  <2>2. ASSUME NEW r \in Sprouts PROVE Midway(r, run[r], h)
    <3>1. Midway(r, run[r], host)
      BY <2>1 DEF CheckoutStands
    <3> QED
      BY <1>2, <1>6, <3>1 DEF Midway, HasBasis
  <2>3. Growth!Kept(h) = Growth!Kept(host) /\ Clean(h)
    BY <1>2, <2>1, TypesAre, KeptOfSame DEF CheckoutStands, Clean
  <2> QED
    BY <1>1, <1>2, <2>1, <2>2, <2>3, NoMain DEF CheckoutStands, OneAtATime, FruitsSettled, UnderWay, Growth!UnderWay
<1>8. ASSUME alone, deaths = 0 PROVE Tidy'
  <2>1. Tidy
    BY <1>8 DEF GrowthInv
  <2> QED
    BY <1>1, <1>2, <1>6, <2>1 DEF Tidy, Stacked, Returned
<1> QED
  BY <1>1, <1>3, <1>4, <1>7, <1>8 DEF GrowthInv

LEMMA WriteKeeps == ASSUME GrowthInv, Growth!Write PROVE GrowthInv'
<1>1. PICK e \in Growth!Writable(host) \ written :
        host' = [host EXCEPT !.dirty = @ \cup {e}] /\ written' = written \cup {e}
  BY DEF Growth!Write
<1>9. e \in Unsaved /\ \A q \in host.tip[host.head] : ~Clash(e, q)
  BY HitIs DEF Growth!Writable
<1>2. UNCHANGED <<run, alone, trouble, deaths>> /\ host \in Hosts
  BY TypesAre DEF Growth!Write
<1> DEFINE h == [host EXCEPT !.dirty = @ \cup {e}]
<1>3. /\ h \in Hosts /\ h.trees = host.trees
      /\ h.head = host.head /\ h.exists = host.exists /\ h.tip = host.tip /\ h.base = host.base
      /\ h.owned = host.owned /\ h.dirty = host.dirty \cup {e} /\ h.stash = host.stash
  BY <1>2, <1>9 DEF Hosts, Growth!Host
<1>4. host' = h
  BY <1>1
<1> HIDE DEF h
<1>5. Growth!TypeOK'
  BY <1>1, <1>2, <1>3, <1>4, <1>9, TypesAre DEF Growth!TypeOK, Hosts, Growers
<1>6. Ground'
  BY <1>2, <1>3, <1>4 DEF GrowthInv, Ground, Growth!GrowingKeepsItsGround
<1>7. ASSUME alone PROVE CheckoutStands'
  <2>1. CheckoutStands
    BY <1>7 DEF GrowthInv
  <2>2. ASSUME NEW r \in Sprouts PROVE Midway(r, run[r], h)
    <3>1. Midway(r, run[r], host)
      BY <2>1 DEF CheckoutStands
    <3>2. Growth!NoWork(h, r) <=> Growth!NoWork(host, r)
      BY <1>3 DEF Growth!NoWork
    <3> QED
      BY <1>3, <3>1, <3>2 DEF Midway, Entry
  <2>3. Growth!Kept(h) = Growth!Kept(host) \cup {e}
    BY <1>2, <1>3, KeptIs
  <2>4. Clean(h)
    BY <1>3, <1>9, <2>1 DEF CheckoutStands, Clean
  <2> QED
    BY <1>1, <1>2, <1>3, <1>4, <2>1, <2>2, <2>3, <2>4 DEF CheckoutStands, OneAtATime, FruitsSettled, UnderWay, Growth!UnderWay
<1>8. ASSUME alone, deaths = 0 PROVE Tidy'
  <2>1. Tidy
    BY <1>8 DEF GrowthInv
  <2>2. \A r \in Sprouts : Growth!NoWork(h, r) <=> Growth!NoWork(host, r)
    BY <1>3 DEF Growth!NoWork
  <2> QED
    BY <1>2, <1>3, <1>4, <2>1, <2>2 DEF Tidy, Stacked, Returned
<1> QED
  BY <1>2, <1>5, <1>6, <1>7, <1>8 DEF GrowthInv

LEMMA DeathKeeps == ASSUME GrowthInv, Growth!Crash PROVE GrowthInv'
<1> DEFINE gone(r) == [Growth!Asleep(run[r].kind) EXCEPT !.phase = "dead"]
<1>1. /\ deaths < MaxDeaths /\ deaths' = deaths + 1 /\ UNCHANGED <<host, written, alone, trouble>>
      /\ run' = [r \in Sprouts |-> IF UnderWay(r) THEN gone(r) ELSE run[r]]
  BY DEF Growth!Crash, UnderWay
<1>2. deaths \in Nat /\ deaths' \in 0 .. MaxDeaths /\ deaths' # 0
  <2>1. MaxDeaths \in Nat /\ deaths \in 0 .. MaxDeaths
    BY TypesAre, GrowthIsBounded DEF Growth!SproutRunAssumption
  <2> QED
    BY <1>1, <2>1
<1>3. ASSUME NEW r \in Sprouts
      PROVE  /\ gone(r) \in Growers /\ gone(r).phase = "dead" /\ ~gone(r).stashed
             /\ gone(r).fruit = [branch |-> "none", state |-> "none"] /\ gone(r).kind = run[r].kind
  <2>1. run[r].kind \in {"sprout", "candidate"} /\ "dead" \in Growth!Phase
    BY TypesAre, Terms DEF Growth!Phase
  <2> DEFINE z == Growth!Asleep(run[r].kind)
  <2>2. z \in Growers /\ ~z.stashed /\ z.fruit = [branch |-> "none", state |-> "none"] /\ z.kind = run[r].kind
    BY <2>1, AsleepIs
  <2> HIDE DEF z
  <2>3. gone(r) = [z EXCEPT !.phase = "dead"]
    BY DEF z
  <2> QED
    BY <2>1, <2>2, <2>3 DEF Growers, Growth!RunState
<1> HIDE DEF gone
<1>4. /\ run' \in [Sprouts -> Growers]
      /\ \A r \in Sprouts : run'[r] = IF UnderWay(r) THEN gone(r) ELSE run[r]
  BY <1>1, <1>3, TypesAre
<1>5. Growth!TypeOK'
  BY <1>1, <1>2, <1>4, TypesAre DEF Growth!TypeOK, Hosts, Growers
<1>6. Ground'
  <2>1. Ground /\ host.trees \subseteq Sprouts
    BY TypesAre, HostIs DEF GrowthInv
  <2> QED
    BY <1>1, <1>2, <1>3, <1>4, <2>1 DEF Ground, Growth!GrowingKeepsItsGround
<1>7. ASSUME alone PROVE CheckoutStands'
  <2>1. CheckoutStands
    BY <1>7 DEF GrowthInv
  <2>2. OneAtATime'
    BY <1>3, <1>4, <2>1 DEF CheckoutStands, OneAtATime, UnderWay, Growth!UnderWay
  <2>3. FruitsSettled'
    <3>2. ASSUME NEW r \in Sprouts, NEW q \in Sprouts, q # r,
                 run'[r].fruit.state = "local-only", run'[r].fruit.branch = q
          PROVE  run'[q].phase \in {"over", "dead"}
      <4>1. CASE ~UnderWay(r)
        <5>1. run[q].phase \in {"over", "dead"}
          BY <1>4, <2>1, <3>2, <4>1 DEF CheckoutStands, FruitsSettled
        <5> QED
          BY <1>3, <1>4, <5>1
      <4>2. CASE UnderWay(r)
        <5>1. run'[r].fruit = [branch |-> "none", state |-> "none"]
          BY <1>3, <1>4, <4>2
        <5>2. run'[r].fruit.state = "none"
          BY <5>1
        <5> QED
          BY <3>2, <5>2
      <4> QED
        BY <4>1, <4>2
    <3> QED
      BY <3>2 DEF FruitsSettled
  <2>4. ASSUME NEW r \in Sprouts PROVE Midway(r, run'[r], host)
    <3>1. Midway(r, run[r], host)
      BY <2>1 DEF CheckoutStands
    <3> QED
      BY <1>3, <1>4, <3>1 DEF Midway, Away, HasBasis
  <2>5. host.head \in Sprouts => run'[host.head].phase # "idle" /\ run'[host.head].kind = "sprout"
    BY <1>3, <1>4, <2>1 DEF CheckoutStands
  <2>6. \A e, q : q \in Sprouts /\ Overwrote(run[q], q, e) => Overwrote(run'[q], q, e)
    BY <1>4 DEF Overwrote, UnderWay, Growth!UnderWay
  <2> QED
    BY <1>1, <2>1, <2>2, <2>3, <2>4, <2>5, <2>6 DEF CheckoutStands, Clean
<1> QED
  BY <1>1, <1>2, <1>5, <1>6, <1>7 DEF GrowthInv

LEMMA GrowthInit == Growth!Init => GrowthInv
<1> SUFFICES ASSUME Growth!Init PROVE GrowthInv
  OBVIOUS
<1>1. PICK c \in Candidates :
        run = [r \in Sprouts |-> Growth!Asleep(IF r \in c THEN "candidate" ELSE "sprout")]
  BY DEF Growth!Init
<1>2. /\ host = Growth!Pristine /\ written = {} /\ alone = TRUE /\ trouble = 0 /\ deaths = 0
      /\ MaxTrouble \in Nat /\ MaxDeaths \in Nat
  BY GrowthIsBounded DEF Growth!Init, Growth!SproutRunAssumption
<1>3. /\ host \in Hosts /\ host.trees = {} /\ host.head = Main /\ host.exists = {Main}
      /\ host.tip[Main] = {} /\ (\A r \in Sprouts : host.base[r] = {})
      /\ host.dirty = {} /\ host.stash = <<>>
  <2>1. <<>> \in Seq(Entries)
    BY EmptySeq
  <2> QED
    BY <1>2, <2>1 DEF Growth!Pristine, Hosts, Growth!Host, Growth!Branch, Entries
<1>4. ASSUME NEW r \in Sprouts
      PROVE  /\ run[r] \in Growers /\ run[r].phase = "idle" /\ ~run[r].stashed
             /\ run[r].fruit = [branch |-> "none", state |-> "none"]
             /\ run[r].fruit.state = "none"
  <2> DEFINE k == IF r \in c THEN "candidate" ELSE "sprout"
  <2>1. k \in {"sprout", "candidate"} /\ run[r] = Growth!Asleep(k)
    BY <1>1
  <2> HIDE DEF k
  <2> QED
    BY <2>1, AsleepIs
<1>5. run \in [Sprouts -> Growers]
  BY <1>1, <1>4
<1>6. Growth!TypeOK
  BY <1>2, <1>3, <1>5 DEF Growth!TypeOK, Hosts, Growers
<1>7. Ground
  BY <1>3, <1>4 DEF Ground, Growth!GrowingKeepsItsGround
<1>8. Growth!Kept(host) = {}
  BY <1>3, KeptIs
<1>9. \A r \in Sprouts : ~UnderWay(r) /\ ~Away(run[r])
  BY <1>4 DEF UnderWay, Growth!UnderWay, Away
<1>10. \A r \in Sprouts : Midway(r, run[r], host)
  BY <1>4, <1>9 DEF Midway, HasBasis
<1>11. FruitsSettled
  BY <1>4 DEF FruitsSettled
<1>12. CheckoutStands
  BY <1>2, <1>3, <1>8, <1>9, <1>10, <1>11, NoMain DEF CheckoutStands, OneAtATime, Clean
<1>13. Tidy
  BY <1>3, <1>4, <1>9, NoMain DEF Tidy, Stacked, Returned
<1> QED
  BY <1>6, <1>7, <1>12, <1>13 DEF GrowthInv

LEMMA GrowthKept == GrowthInv /\ [Growth!Next]_Growth!vars => GrowthInv'
<1> SUFFICES ASSUME GrowthInv, [Growth!Next]_Growth!vars PROVE GrowthInv'
  OBVIOUS
<1>1. ASSUME UNCHANGED Growth!vars PROVE GrowthInv'
  <2>1. UNCHANGED <<host, run, written, alone, trouble, deaths>>
    BY <1>1 DEF Growth!vars
  <2> QED
    BY <2>1 DEF GrowthInv, Growth!TypeOK, Ground, Growth!GrowingKeepsItsGround, CheckoutStands, Tidy,
               OneAtATime, FruitsSettled, UnderWay, Growth!UnderWay, Stacked, Returned
<1>2. ASSUME NEW r \in Sprouts,
             Growth!Call(r) \/ Growth!Prepare(r) \/ Growth!TurnEnds(r) \/ Growth!Clocks(r)
               \/ Growth!Finish(r) \/ Growth!Teardown(r)
      PROVE  GrowthInv'
  <2>1. CASE Growth!Call(r)
    BY <2>1, CallKeeps
  <2>2. CASE Growth!Prepare(r)
    BY <2>2, StashStepKeeps, PlantKeeps DEF Growth!Prepare
  <2>3. CASE Growth!TurnEnds(r) \/ Growth!Clocks(r)
    BY <2>3, GrowingKeeps DEF Growth!Clocks
  <2>4. CASE Growth!Finish(r)
    BY <2>4, CompleteKeeps, RecordKeeps, GraftKeeps, IntegrateKeeps DEF Growth!Finish
  <2>5. CASE Growth!Teardown(r)
    BY <2>5, ClearKeeps, ReturnKeeps, RestoreKeeps, DropKeepsAll DEF Growth!Teardown
  <2> QED
    BY <1>2, <2>1, <2>2, <2>3, <2>4, <2>5
<1> QED
  BY <1>1, <1>2, SwitchKeeps, WriteKeeps, DeathKeeps DEF Growth!Next

LEMMA GrowthInvImplies ==
  ASSUME GrowthInv
  PROVE  /\ Growth!EditsAreKept /\ Growth!ProtectedIsUntouched /\ Growth!FruitIsReachable
         /\ Growth!GrowingKeepsItsGround /\ Growth!CheckoutIsGivenBack
<1>5. Growth!Overwritten = {e \in Unsaved : \E q \in Sprouts : run[q].committed /\ Clash(e, q)}
  BY DEF Growth!Overwritten, Clash
<1>6. ASSUME CheckoutStands
      PROVE  Growth!Kept(host) \subseteq written /\ written \ Growth!Kept(host) \subseteq Growth!Overwritten
  BY <1>5, <1>6, TypesAre DEF CheckoutStands, Overwrote
<1>1. Growth!EditsAreKept /\ Growth!ProtectedIsUntouched /\ Growth!GrowingKeepsItsGround
  BY <1>6 DEF GrowthInv, Ground, CheckoutStands, Growth!EditsAreKept, Growth!ProtectedIsUntouched
<1>2. Growth!FruitIsReachable
  BY DEF GrowthInv, CheckoutStands, Midway, Growth!FruitIsReachable
<1>3. ASSUME alone, deaths = 0, \A r \in Sprouts : ~Growth!UnderWay(r) /\ ~run[r].lost
      PROVE  /\ host.dirty \subseteq written /\ written \ host.dirty \subseteq Growth!Overwritten
             /\ host.stash = <<>> /\ host.trees = {}
             /\ (\A r \in Sprouts : ~run[r].committed) =>
                  host.head = Main /\ \A r \in host.exists \cap Sprouts : run[r].kind = "candidate"
  <2>1. Ground /\ CheckoutStands /\ Stacked /\ ((\A r \in Sprouts : ~run[r].committed) => Returned)
    BY <1>3 DEF GrowthInv, Tidy
  <2>2. \A r \in Sprouts : run[r].phase \in {"idle", "over", "dead"} /\ ~Away(run[r])
    BY <1>3 DEF Growth!UnderWay, Away
  <2>3. \A r \in Sprouts : ~run[r].stashed
    BY <2>1, <2>2 DEF CheckoutStands, Midway
  <2>4. host.stash = <<>>
    BY <2>1, <2>3 DEF Stacked
  <2>5. host.trees = {}
    <3>1. host.trees \subseteq Sprouts
      BY TypesAre, HostIs
    <3>2. ASSUME NEW r \in host.trees PROVE FALSE
      <4>1. run[r].phase \in {"growing", "turned", "committed", "recorded", "clearing", "dead"}
            /\ run[r].phase # "dead" /\ run[r].phase \in {"idle", "over", "dead"}
        BY <1>3, <2>1, <2>2, <3>1 DEF Ground
      <4> QED
        BY <4>1
    <3> QED
      BY <3>2
  <2>6. host.dirty \subseteq written /\ written \ host.dirty \subseteq Growth!Overwritten
    <3>1. Growth!Kept(host) = host.dirty
      <4>1. Len(host.stash) = 0
        BY <2>4
      <4>2. 1 .. Len(host.stash) = {}
        BY <4>1
      <4> QED
        BY <4>2, TypesAre, KeptIs
    <3> QED
      BY <1>6, <2>1, <3>1
  <2>7. (\A r \in Sprouts : ~run[r].committed) =>
          host.head = Main /\ \A r \in host.exists \cap Sprouts : run[r].kind = "candidate"
    BY <2>1, <2>2 DEF Returned
  <2> QED
    BY <2>4, <2>5, <2>6, <2>7
<1>4. Growth!CheckoutIsGivenBack
  BY <1>3 DEF Growth!CheckoutIsGivenBack
<1> QED
  BY <1>1, <1>2, <1>4

-----------------------------------------------------------------------------
\* Whatever fails and whoever dies: the operator's edits are in the tree or in
\* the stash, nothing is grafted onto the protected branch, a reported Fruit is on
\* its branch, a Sprout grows on its ground and the checkout is given back.
THEOREM CheckoutIsRespectedAlone ==
  Growth!Spec => [](/\ Growth!EditsAreKept /\ Growth!ProtectedIsUntouched /\ Growth!FruitIsReachable
                    /\ Growth!GrowingKeepsItsGround /\ Growth!CheckoutIsGivenBack)
<1>1. Growth!Spec => []GrowthInv
  BY GrowthInit, GrowthKept, PTL DEF Growth!Spec
<1> QED
  BY <1>1, GrowthInvImplies, PTL

\* CheckoutIsRespected, in the composition the run checks.
THEOREM CheckoutIsRespectedAlways == MCSpec => []CheckoutIsRespected
<1>1. MCInit => GrowthInv
  BY GrowthInit DEF MCInit
<1>2. [MCNext]_<<focus, workspaces, delegated, repository, grown, vars>> => [Growth!Next]_Growth!vars
  BY DEF MCNext, grown, Growth!vars
<1>3. GrowthInv => CheckoutIsRespected
  BY GrowthInvImplies DEF CheckoutIsRespected
<1> QED
  BY <1>1, <1>2, <1>3, GrowthKept, PTL DEF MCSpec
===============================================================================
