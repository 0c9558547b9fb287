---------------------------- MODULE RolloutProofs ----------------------------
(***************************************************************************)
(* The rollout implements the cutover (Cutover), for any number of services *)
(* and containers, any number of deploys and any faults; and what a deploy  *)
(* that meets no fault leaves running.                                      *)
(***************************************************************************)
EXTENDS Rollout, FiniteSetTheorems, WellFoundedInduction, TLAPS

-----------------------------------------------------------------------------
(* Finite sets and the ids of new containers.                              *)

\* A non-empty set of naturals has a least element.
LEMMA LeastNat ==
  ASSUME NEW T \in SUBSET Nat, T # {}
  PROVE  Min(T) \in T
<1>1. PICK m \in T : \A k \in T : <<k, m>> \notin OpToRel(<, Nat)
  BY WFMin, NatLessThanWellFounded, Zenon
<1>2. ASSUME NEW k \in T PROVE ~(k < m)
  BY <1>1, Zenon DEF OpToRel
<1>3. \A k \in T : m <= k
  BY <1>2
<1>. QED BY <1>3 DEF Min

\* The image of a finite set is finite.
LEMMA FiniteImage ==
  ASSUME NEW S, IsFiniteSet(S), NEW f
  PROVE  IsFiniteSet({f[x] : x \in S})
<1>. DEFINE T == {f[x] : x \in S}
            g == [x \in S |-> f[x]]
<1>1. g \in Surjection(S, T)
  BY DEF Surjection
<1>. QED BY <1>1, FS_Surjection

\* Of finitely many naturals one of the first ones is free.
LEMMA FreeNat ==
  ASSUME NEW used \in SUBSET Nat, IsFiniteSet(used)
  PROVE  /\ Min((1 .. Cardinality(used) + 1) \ used) \in Nat
         /\ Min((1 .. Cardinality(used) + 1) \ used) \notin used
<1>. DEFINE k == Cardinality(used)
<1>1. k \in Nat
  BY FS_CardinalityType
<1>. HIDE DEF k
<1>2. IsFiniteSet(1 .. k + 1) /\ Cardinality(1 .. k + 1) = k + 1
  BY <1>1, FS_Interval
<1>3. (1 .. k + 1) \ used # {}
  <2>1. SUFFICES ASSUME 1 .. k + 1 \subseteq used PROVE FALSE
    OBVIOUS
  <2>2. Cardinality(1 .. k + 1) <= Cardinality(used)
    BY <2>1, FS_Subset
  <2>. QED BY <1>1, <1>2, <2>2 DEF k
<1>4. Min((1 .. k + 1) \ used) \in (1 .. k + 1) \ used
  BY <1>1, <1>3, LeastNat
<1>. QED BY <1>1, <1>4 DEF k

\* What the other proofs read off a sequence of services.
LEMMA RolledFacts ==
  /\ Len(Rolled) \in Nat \ {0} /\ DOMAIN Rolled = 1 .. Len(Rolled)
  /\ \A i \in 1 .. Len(Rolled) : Rolled[i] \in RolledService /\ Rolled[i] \notin Rest
  /\ \A i, j \in 1 .. Len(Rolled) : Rolled[i] = Rolled[j] => i = j
  /\ RolledService \subseteq Service /\ Rest \subseteq Service
  /\ IsFiniteSet(Service)
<1>1. Len(Rolled) \in Nat /\ DOMAIN Rolled = 1 .. Len(Rolled)
  BY RolloutAssumption
<1>2. IsFiniteSet(1 .. Len(Rolled))
  BY <1>1, FS_Interval
<1>3. IsFiniteSet(RolledService)
  BY <1>1, <1>2, FiniteImage DEF RolledService
<1>4. IsFiniteSet(Service)
  BY <1>3, FS_Union, RolloutAssumption DEF Service
<1>5. Len(Rolled) # 0
  BY <1>1, RolloutAssumption DEF RolledService
<1>. QED BY <1>1, <1>4, <1>5, RolloutAssumption DEF RolledService, Service

-----------------------------------------------------------------------------
(* Types.                                                                  *)

Types ==
    /\ containers \in SUBSET Container /\ IsFiniteSet(containers)
    /\ oldIDs \in SUBSET Id /\ IsFiniteSet(oldIDs)
    /\ newIDs \in SUBSET Id /\ IsFiniteSet(newIDs)
    /\ before \in SUBSET Id /\ IsFiniteSet(before)
    /\ base \in Nat /\ version \in Nat
    /\ phase \in Phase /\ next \in 1 .. Len(Rolled)

\* The ids of finitely many containers are finitely many ids.
LEMMA IdsOfFew ==
  ASSUME NEW cs \in SUBSET Container, IsFiniteSet(cs)
  PROVE  IdsOf(cs) \in SUBSET Id /\ IsFiniteSet(IdsOf(cs))
<1>. DEFINE f == [c \in cs |-> c.id]
<1>1. IdsOf(cs) = {f[c] : c \in cs}
  BY DEF IdsOf
<1>. HIDE DEF f
<1>2. IsFiniteSet(IdsOf(cs))
  BY <1>1, FiniteImage
<1>. QED BY <1>2 DEF IdsOf, Container

\* A new id is an id of its service that nothing has.
LEMMA NewIdIsNew ==
  ASSUME Types, NEW s \in Service
  PROVE  /\ NewId(s) \in Id /\ NewId(s).service = s
         /\ NewId(s) \notin IdsOf(containers) \cup oldIDs \cup newIDs \cup before
<1>. DEFINE ids == {i \in IdsOf(containers) \cup oldIDs \cup newIDs \cup before : i.service = s}
            used == {id.n : id \in ids}
            f == [id \in ids |-> id.n]
            m == Min((1 .. Cardinality(used) + 1) \ used)
<1>1. IdsOf(containers) \in SUBSET Id /\ IsFiniteSet(IdsOf(containers))
  BY IdsOfFew DEF Types
<1>2. IsFiniteSet(IdsOf(containers) \cup oldIDs \cup newIDs \cup before)
  BY <1>1, FS_Union DEF Types
<1>3. IsFiniteSet(ids)
  BY <1>2, FS_Subset
<1>4. ids \in SUBSET Id
  BY <1>1 DEF Types
<1>5. used = {f[id] : id \in ids}
  OBVIOUS
<1>6. used \in SUBSET Nat
  BY <1>4 DEF Id
<1>7. IsFiniteSet(used)
  <2>. HIDE DEF f, ids, used
  <2>. QED BY <1>3, <1>5, FiniteImage
<1>8. NewId(s) = [service |-> s, n |-> m]
  BY DEF NewId
<1>9. m \in Nat /\ m \notin used
  BY <1>6, <1>7, FreeNat
<1>. HIDE DEF m
<1>10. [service |-> s, n |-> m] \notin ids
  <2>1. SUFFICES ASSUME [service |-> s, n |-> m] \in ids PROVE FALSE
    OBVIOUS
  <2>2. [service |-> s, n |-> m].n \in used
    BY <2>1
  <2>. QED BY <1>9, <2>2
<1>11. NewId(s) \in Id /\ NewId(s).service = s
  BY <1>8, <1>9 DEF Id
<1>. QED BY <1>8, <1>10, <1>11

\* So a new container is a container of its service.
LEMMA NewContainerIsOne ==
  ASSUME Types, NEW s \in Service, NEW v \in Nat
  PROVE  /\ NewContainer(s, v) \in Container
         /\ NewContainer(s, v).id = NewId(s)
BY NewIdIsNew DEF NewContainer, Container

\* What up leaves a service with is a container of it, a new one or one of those
\* it had.
LEMMA UppedIsOne ==
  ASSUME Types, NEW s \in Service, NEW v \in Nat
  PROVE  /\ Upped(s, v) \in Container /\ Upped(s, v).id.service = s
         /\ Upped(s, v).version = v
         /\ Of(s) = {} => Upped(s, v) = NewContainer(s, v)
<1>. DEFINE same == {c \in Of(s) : c.version = v}
            ns == {c.id.n : c \in same}
<1>1. CASE same = {}
  BY <1>1, NewContainerIsOne, NewIdIsNew DEF Upped, NewContainer
<1>2. CASE same # {}
  <2>1. same \subseteq containers /\ \A c \in same : c.id.service = s /\ c.id.n \in Nat
    BY DEF Of, Types, Container, Id
  <2>2. ns \in SUBSET Nat /\ ns # {}
    BY <1>2, <2>1
  <2>3. PICK m \in ns : \A k \in ns : <<k, m>> \notin OpToRel(<, Nat)
    BY <2>2, WFMin, NatLessThanWellFounded, Zenon
  <2>4. ASSUME NEW k \in ns PROVE ~(k < m)
    BY <2>2, <2>3, Zenon DEF OpToRel
  <2>5. PICK c \in same : c.id.n = m
    BY <2>3
  <2>6. \A d \in same : c.id.n <= d.id.n
    BY <2>1, <2>4, <2>5
  <2>7. Upped(s, v) \in same
    BY <1>2, <2>6 DEF Upped
  <2>8. Of(s) # {}
    BY <1>2
  <2>. QED BY <2>1, <2>7, <2>8 DEF Types
<1>. QED BY <1>1, <1>2

\* up keeps the containers finitely many.
LEMMA UpTypes ==
  ASSUME Types, NEW S \in SUBSET Service, NEW v \in Nat
  PROVE  Up(S, v) \in SUBSET Container /\ IsFiniteSet(Up(S, v))
<1>. DEFINE f == [s \in S |-> Upped(s, v)]
            cs == {c \in containers : c.id.service \notin S}
<1>1. Up(S, v) = cs \cup {f[s] : s \in S}
  BY DEF Up
<1>2. \A s \in S : f[s] \in Container
  BY UppedIsOne
<1>. HIDE DEF f
<1>3. IsFiniteSet(S)
  BY RolledFacts, FS_Subset
<1>4. IsFiniteSet({f[s] : s \in S})
  BY <1>3, FiniteImage
<1>5. IsFiniteSet(cs)
  BY FS_Subset DEF Types
<1>6. cs \subseteq Container
  BY DEF Types
<1>. HIDE DEF cs
<1>7. IsFiniteSet(Up(S, v))
  BY <1>1, <1>4, <1>5, FS_Union
<1>8. Up(S, v) \subseteq Container
  BY <1>1, <1>2, <1>6
<1>. QED BY <1>7, <1>8

\* Removing containers, best effort, removes some of those named.
LEMMA RemovedSome ==
  ASSUME NEW ids, RemoveContainers(ids)
  PROVE  \E gone \in SUBSET ids : containers' = Removed(gone)
<1>1. Removed({}) = containers
  BY DEF Removed
<1>. QED BY <1>1 DEF RemoveContainers

\* One more container, or fewer, is still finitely many.
LEMMA FewContainers ==
  ASSUME Types
  PROVE  /\ \A gone : Removed(gone) \in SUBSET Container /\ IsFiniteSet(Removed(gone))
         /\ \A v \in Nat : LET more == containers \cup {NewContainer(Cur, v)}
                           IN  more \in SUBSET Container /\ IsFiniteSet(more)
         /\ \A s : Of(s) \in SUBSET Container /\ IsFiniteSet(Of(s))
<1>1. Cur \in Service
  BY RolledFacts DEF Types, Cur
<1>2. ASSUME NEW gone PROVE Removed(gone) \in SUBSET Container /\ IsFiniteSet(Removed(gone))
  BY FS_Subset DEF Types, Removed
<1>3. ASSUME NEW v \in Nat
      PROVE  LET more == containers \cup {NewContainer(Cur, v)}
             IN  more \in SUBSET Container /\ IsFiniteSet(more)
  BY <1>1, <1>3, NewContainerIsOne, FS_AddElement DEF Types
<1>4. ASSUME NEW s PROVE Of(s) \in SUBSET Container /\ IsFiniteSet(Of(s))
  BY FS_Subset DEF Types, Of
<1>. QED BY <1>2, <1>3, <1>4

\* At the start one container per service runs, or none.
LEMMA TypesInit == Init => Types
<1>. SUFFICES ASSUME Init PROVE Types
  OBVIOUS
<1>1. PICK running \in {{}, Service} :
        containers = {[id |-> [service |-> s, n |-> 1], version |-> 1, healthy |-> TRUE] : s \in running}
  BY DEF Init
<1>. DEFINE f == [s \in running |-> [id |-> [service |-> s, n |-> 1], version |-> 1, healthy |-> TRUE]]
<1>2. containers = {f[s] : s \in running} /\ \A s \in running : f[s] \in Container
  BY <1>1 DEF Container, Id
<1>3. IsFiniteSet(running)
  BY <1>1, RolledFacts, FS_EmptySet
<1>. HIDE DEF f
<1>4. containers \in SUBSET Container /\ IsFiniteSet(containers)
  BY <1>2, <1>3, FiniteImage
<1>5. IdsOf(containers) \in SUBSET Id /\ IsFiniteSet(IdsOf(containers))
  BY <1>4, IdsOfFew
<1>6. base \in Nat /\ version \in Nat /\ phase \in Phase
  BY DEF Init, Phase
<1>7. next \in 1 .. Len(Rolled)
  BY RolledFacts DEF Init
<1>. QED BY <1>4, <1>5, <1>6, <1>7, FS_EmptySet DEF Types, Init

\* Every step keeps them.
LEMMA TypesStep == Types /\ [Next]_vars => Types'
<1>. SUFFICES ASSUME Types, [Next]_vars PROVE Types'
  OBVIOUS
<1>. DEFINE Few(cs) == cs \in SUBSET Container /\ IsFiniteSet(cs)
            Ids(ids) == ids \in SUBSET Id /\ IsFiniteSet(ids)
            Same == UNCHANGED <<oldIDs, newIDs, before>>
            Flow == phase' \in Phase /\ next' \in 1 .. Len(Rolled)
            Versions == base' \in Nat /\ version' \in Nat
<1>1. ASSUME Few(containers'), Ids(oldIDs'), Ids(newIDs'), Ids(before'), Flow, Versions
      PROVE  Types'
  BY <1>1 DEF Types
<1>2. Few(containers) /\ Ids(oldIDs) /\ Ids(newIDs) /\ Ids(before)
  BY DEF Types
<1>3. /\ Cur \in Service /\ \A S \in SUBSET Service : Few(Up(S, version)) /\ Few(Up(S, base))
      /\ {Cur} \in SUBSET Service /\ Rest \in SUBSET Service
  BY RolledFacts, UpTypes DEF Types, Cur
<1>4. /\ \A gone : Few(Removed(gone))
      /\ Few(containers \cup {NewContainer(Cur, version)})
      /\ \A s : Few(Of(s))
  BY FewContainers DEF Types
<1>5. \A cs : Few(cs) => Ids(IdsOf(cs))
  BY IdsOfFew
<1>6. Len(Rolled) \in Nat \ {0} /\ next \in 1 .. Len(Rolled) /\ phase \in Phase
      /\ base \in Nat /\ version \in Nat
  BY RolledFacts DEF Types
<1>. HIDE DEF Few, Ids
<1>7. CASE Deploy
  <2>1. Versions /\ Flow
    BY <1>6, <1>7, RolloutAssumption DEF Deploy, Goto, Phase
  <2>2. Ids({})
    BY FS_EmptySet DEF Ids
  <2>. QED BY <1>1, <1>2, <1>5, <1>7, <2>1, <2>2 DEF Deploy
<1>8. CASE UpRest
  <2>1. Few(containers')
    BY <1>3, <1>8 DEF UpRest
  <2>2. Versions /\ Same /\ Flow
    BY <1>6, <1>8 DEF UpRest, Goto, RollBack, Report, Phase
  <2>. QED BY <1>1, <1>2, <2>1, <2>2
<1>9. CASE ListOld
  <2>1. Flow /\ Versions /\ containers' = containers /\ before' = before
    BY <1>6, <1>9 DEF ListOld, Goto, RollBack, Report, Phase
  <2>2. Ids({})
    BY FS_EmptySet DEF Ids
  <2>3. Ids(oldIDs') /\ Ids(newIDs')
    BY <1>2, <1>4, <1>5, <1>9, <2>2 DEF ListOld
  <2>. QED BY <1>1, <1>2, <2>1, <2>3
<1>10. CASE FirstUp
  <2>1. Few(containers')
    BY <1>2, <1>3, <1>10 DEF FirstUp
  <2>2. Versions /\ Same
    BY <1>6, <1>10 DEF FirstUp
  <2>3. Flow
    BY <1>6, <1>10 DEF FirstUp, Advance, Goto, RollBack, Report, Phase
  <2>. QED BY <1>1, <1>2, <2>1, <2>2, <2>3
<1>11. CASE StartCanary
  <2>1. Few(containers')
    BY <1>2, <1>4, <1>11 DEF StartCanary
  <2>2. Versions /\ Same /\ Flow
    BY <1>6, <1>11 DEF StartCanary, Goto, Phase
  <2>. QED BY <1>1, <1>2, <2>1, <2>2
<1>12. CASE CleanupCanary
  <2>1. Few(containers')
    BY <1>2, <1>4, <1>12, RemovedSome DEF CleanupCanary
  <2>2. Versions /\ Same /\ Flow
    BY <1>6, <1>12 DEF CleanupCanary, Goto, RollBack, Report, Phase
  <2>. QED BY <1>1, <1>2, <2>1, <2>2
<1>13. CASE Poll
  <2>1. /\ containers' = containers /\ oldIDs' = oldIDs /\ before' = before
        /\ newIDs' \in {newIDs, IdsOf(Of(Cur)) \ oldIDs}
    BY <1>13 DEF Poll
  <2>2. Ids(newIDs')
    BY <1>2, <1>4, <1>5, <2>1, FS_Subset DEF Ids
  <2>3. Versions /\ Flow
    BY <1>6, <1>13 DEF Poll, Goto, Phase
  <2>. QED BY <1>1, <1>2, <2>1, <2>2, <2>3
<1>14. CASE GiveUpCanary
  <2>1. Few(containers')
    BY <1>4, <1>14, RemovedSome DEF GiveUpCanary
  <2>2. Versions /\ Same /\ Flow
    BY <1>6, <1>14 DEF GiveUpCanary, Goto, Report, Phase
  <2>. QED BY <1>1, <1>2, <2>1, <2>2
<1>15. CASE DrainOld
  <2>1. Few(containers')
    BY <1>4, <1>15, RemovedSome DEF DrainOld
  <2>2. Versions /\ Same /\ Flow
    BY <1>6, <1>15 DEF DrainOld, Advance, Goto, Phase
  <2>. QED BY <1>1, <1>2, <2>1, <2>2
<1>16. CASE Verify
  <2>1. Versions /\ Same /\ Flow /\ containers' = containers
    BY <1>6, <1>16 DEF Verify, Goto, RollBack, Report, Phase
  <2>. QED BY <1>1, <1>2, <2>1
<1>17. CASE Restore
  <2>1. Few(containers')
    BY <1>3, <1>17 DEF Restore
  <2>2. Versions /\ Same /\ Flow
    BY <1>6, <1>17 DEF Restore, Goto, Report, Phase
  <2>. QED BY <1>1, <1>2, <2>1, <2>2
<1>18. CASE HealthChanges
  <2>1. PICK c \in containers, h \in BOOLEAN :
          containers' = (containers \ {c}) \cup {[c EXCEPT !.healthy = h]}
    BY <1>18 DEF HealthChanges
  <2>2. c \in Container
    BY DEF Types
  <2>3. [c EXCEPT !.healthy = h] \in Container
    BY <2>2 DEF Container
  <2>4. Few(containers')
    BY <1>2, <2>1, <2>3, FS_RemoveElement, FS_AddElement DEF Few
  <2>5. Versions /\ Same /\ Flow
    BY <1>6, <1>18 DEF HealthChanges, deployVars, ghosts
  <2>. QED BY <1>1, <1>2, <2>4, <2>5
<1>19. CASE ContainerExits
  <2>1. Few(containers')
    BY <1>2, <1>19, FS_RemoveElement DEF ContainerExits, Few
  <2>2. Versions /\ Same /\ Flow
    BY <1>6, <1>19 DEF ContainerExits, deployVars
  <2>. QED BY <1>1, <1>2, <2>1, <2>2
<1>20. CASE Shutdown \/ Restart \/ UNCHANGED vars
  <2>1. Versions /\ Same /\ Flow /\ containers' = containers
    BY <1>6, <1>20 DEF Shutdown, Restart, vars, deployVars, ghosts
  <2>. QED BY <1>1, <1>2, <2>1
<1>. QED BY <1>7, <1>8, <1>9, <1>10, <1>11, <1>12, <1>13, <1>14, <1>15, <1>16, <1>17,
            <1>18, <1>19, <1>20 DEF Next

-----------------------------------------------------------------------------
(* Where a deploy is, in terms of the ids that run.                        *)

Running(s) == IdsOf(Of(s))
Earlier(n) == {Rolled[i] : i \in 1 .. n - 1}

Rolling == {"rest", "list", "first", "canary", "poll", "wait", "cleanup", "drain"}
Watched == {"canary", "poll", "wait", "cleanup", "drain"}

\* Services not reached yet run nothing new; the one being rolled has been listed,
\* and what the cutover may remove is its own; only services done with are ready.
Flow ==
    /\ phase \in Rolling => \A i \in next + 1 .. Len(Rolled) : Running(Rolled[i]) \subseteq before
    /\ phase \in {"rest", "list", "canary"} => Running(Cur) \subseteq before
    /\ phase = "first" => Running(Cur) = {}
    /\ phase \in Rolling \ {"drain"} => ready \subseteq Earlier(next)
    /\ phase = "drain" => Cur \in ready /\ ready \subseteq Earlier(next + 1)
    /\ phase \in Watched =>
          /\ oldIDs \subseteq before /\ \A id \in oldIDs : id.service = Cur
          /\ Running(Cur) \cap before \subseteq oldIDs
    /\ phase \in {"canary", "poll", "wait"} => \A id \in newIDs : id.service = Cur /\ id \notin before

RolloutInv == Types /\ Flow

\* The service being rolled is one of the rolled ones, and not one of the earlier.
LEMMA CurIsNext ==
  ASSUME Types
  PROVE  /\ Cur \in RolledService /\ Cur \in Service /\ Cur \notin Earlier(next)
         /\ Earlier(next + 1) = Earlier(next) \cup {Cur}
         /\ \A i \in next + 1 .. Len(Rolled) : Rolled[i] \in RolledService \ {Cur}
BY RolledFacts DEF Types, Cur, Earlier

\* An id runs if it is that of a container.
LEMMA RunningIds ==
  ASSUME NEW s, NEW id
  PROVE  id \in Running(s) <=> \E c \in containers : c.id = id /\ id.service = s
BY DEF Running, IdsOf, Of

\* What the abstraction sees of the containers is which ids run.
LEMMA Seen ==
  /\ Kept = {s \in RolledService : Running(s) \cap before # {}}
  /\ Fresh = {s \in RolledService : ~(Running(s) \subseteq before)}
BY DEF Kept, Fresh, Running, IdsOf

\* So a step that is about one service changes it for that service alone.
LEMMA SeenOfOne ==
  ASSUME before' = before, NEW s \in RolledService,
         \A u \in RolledService \ {s} : Running(u)' = Running(u)
  PROVE  /\ Kept' = IF Running(s)' \cap before = {} THEN Kept \ {s} ELSE Kept \cup {s}
         /\ Fresh' = IF Running(s)' \subseteq before THEN Fresh \ {s} ELSE Fresh \cup {s}
<1>1. /\ Kept' = {u \in RolledService : Running(u)' \cap before # {}}
      /\ Fresh' = {u \in RolledService : ~(Running(u)' \subseteq before)}
  BY Seen DEF Kept, Fresh, Running, IdsOf
<1>2. Kept' = IF Running(s)' \cap before = {} THEN Kept \ {s} ELSE Kept \cup {s}
  BY <1>1, Seen
<1>3. Fresh' = IF Running(s)' \subseteq before THEN Fresh \ {s} ELSE Fresh \cup {s}
  BY <1>1, Seen
<1>. QED BY <1>2, <1>3

\* A step about none of them changes nothing.
LEMMA SeenOfNone ==
  ASSUME before' = before, \A u \in RolledService : Running(u)' = Running(u)
  PROVE  Kept' = Kept /\ Fresh' = Fresh
<1>1. /\ Kept' = {u \in RolledService : Running(u)' \cap before # {}}
      /\ Fresh' = {u \in RolledService : ~(Running(u)' \subseteq before)}
  BY Seen DEF Kept, Fresh, Running, IdsOf
<1>. QED BY <1>1, Seen

\* up of services that do not roll leaves those that do alone.
LEMMA RunningUpRest ==
  ASSUME Types, NEW S \in SUBSET Rest, containers' = Up(S, version)
  PROVE  \A u \in RolledService : Running(u)' = Running(u)
<1>1. ASSUME NEW s \in S PROVE Upped(s, version).id.service = s
  BY UppedIsOne, RolledFacts DEF Types
<1>2. S \cap RolledService = {}
  BY RolloutAssumption
<1>3. ASSUME NEW u \in RolledService PROVE Of(u)' = Of(u)
  BY <1>1, <1>2 DEF Of, Up
<1>. QED BY <1>3 DEF Running, IdsOf

\* One container more runs one id more, a new one.
LEMMA RunningAdded ==
  ASSUME Types, NEW s \in RolledService,
         containers' = containers \cup {NewContainer(s, version)}
  PROVE  /\ \A u \in RolledService \ {s} : Running(u)' = Running(u)
         /\ \E id : id \notin before /\ Running(s)' = Running(s) \cup {id}
<1>. DEFINE c == NewContainer(s, version)
<1>1. c.id.service = s /\ c.id \notin before
  BY NewContainerIsOne, NewIdIsNew, RolledFacts DEF Types
<1>. HIDE DEF c
<1>2. Of(s)' = Of(s) \cup {c} /\ \A u \in RolledService \ {s} : Of(u)' = Of(u)
  BY <1>1 DEF Of, c
<1>. QED BY <1>1, <1>2 DEF Running, IdsOf

\* Removing ids stops them.
LEMMA RunningRemoved ==
  ASSUME NEW gone, containers' = Removed(gone)
  PROVE  \A u : Running(u)' = Running(u) \ gone
BY DEF Running, IdsOf, Of, Removed

\* A change of health stops and starts nothing.
LEMMA RunningHealth ==
  ASSUME Types, HealthChanges
  PROVE  \A u : Running(u)' = Running(u)
<1>1. PICK c \in containers, h \in BOOLEAN :
        containers' = (containers \ {c}) \cup {[c EXCEPT !.healthy = h]}
  BY DEF HealthChanges
<1>. DEFINE d == [c EXCEPT !.healthy = h]
<1>2. d.id = c.id
  BY DEF Types, Container
<1>. HIDE DEF d
<1>. QED BY <1>1, <1>2 DEF d, Running, IdsOf, Of

\* An exit is about one service and starts nothing.
LEMMA RunningExit ==
  ASSUME NEW c \in containers, containers' = containers \ {c}
  PROVE  /\ \A u : Running(u)' \subseteq Running(u)
         /\ \A u : u # c.id.service => Running(u)' = Running(u)
BY DEF Running, IdsOf, Of

\* Where nothing runs, up is one container more.
LEMMA UpOfNone ==
  ASSUME Types, NEW s \in RolledService, Running(s) = {}
  PROVE  Up({s}, version) = containers \cup {NewContainer(s, version)}
<1>1. Of(s) = {}
  BY DEF Running, IdsOf
<1>2. Upped(s, version) = NewContainer(s, version)
  BY <1>1, UppedIsOne, RolledFacts DEF Types
<1>. QED BY <1>1, <1>2 DEF Up, Of

-----------------------------------------------------------------------------
(* Each step keeps the flow and is a step of the cutover, or none.         *)

Refines == [CutoverOf!Next]_(CutoverOf!vars)

\* Whom the deploy found running is fixed while it runs.
Served == {id.service : id \in before} \cap RolledService

\* A step of the cutover that is about one service, spelled out.
LEMMA CutoverStep ==
  ASSUME Stage = "cutover", Stage' \in {"cutover", "restore", "idle"},
         before' = before, exited' = exited, NEW s \in RolledService,
         \/ Kept' = Kept /\ Fresh' = Fresh /\ ready' = ready
         \/ Kept' = Kept /\ Fresh' = Fresh \cup {s} /\ ready' = ready
         \/ Kept' = Kept /\ Fresh' = Fresh /\ s \in Fresh /\ ready' = ready \cup {s}
         \/ s \in ready /\ Kept' = Kept \ {s} /\ Fresh' = Fresh /\ ready' = ready
         \/ s \notin ready /\ Kept' = Kept /\ Fresh' = Fresh \ {s} /\ ready' = ready
  PROVE  Refines
<1>1. Served' = Served /\ (exited \cap RolledService)' = exited \cap RolledService
  BY DEF Served
<1>. QED BY <1>1 DEF Refines, Served, CutoverOf!Next, CutoverOf!Start, CutoverOf!SeenHealthy,
                    CutoverOf!Drain, CutoverOf!GiveUp, CutoverOf!End, CutoverOf!Step

\* A deploy begins: what runs is what is to be kept.
LEMMA DeployRefines ==
  ASSUME RolloutInv, Deploy
  PROVE  Flow' /\ Refines
<1>1. /\ phase = "idle" /\ phase' \in {"list", "rest"} /\ next' = 1
      /\ containers' = containers /\ before' = IdsOf(containers) /\ ready' = {} /\ exited' = {}
  BY DEF Deploy, Goto
<1>2. \A s \in RolledService : Running(s)' = Running(s) /\ Running(s) \subseteq before'
  BY <1>1 DEF Running, IdsOf, Of
<1>3. \A i \in 1 .. Len(Rolled) : Rolled[i] \in RolledService
  BY RolledFacts
<1>4. Flow'
  BY <1>1, <1>2, <1>3, RolledFacts DEF Flow, Cur, Rolling, Watched
<1>5. /\ Kept' = {s \in RolledService : Running(s) # {}}
      /\ Fresh' = {}
  <2>1. /\ Kept' = {s \in RolledService : Running(s)' \cap before' # {}}
        /\ Fresh' = {s \in RolledService : ~(Running(s)' \subseteq before')}
    BY Seen DEF Kept, Fresh, Running, IdsOf
  <2>. QED BY <1>2, <2>1
<1>6. Kept \cup Fresh = {s \in RolledService : Running(s) # {}}
  BY Seen
<1>7. Served' = {s \in RolledService : Running(s) # {}}
  BY <1>1 DEF Served, Running, IdsOf, Of
<1>8. Stage = "idle" /\ Stage' = "cutover"
  BY <1>1 DEF Stage
<1>9. CutoverOf!Begin
  BY <1>1, <1>5, <1>6, <1>7, <1>8 DEF CutoverOf!Begin, Served
<1>. QED BY <1>4, <1>9 DEF Refines, CutoverOf!Next

\* Where a failed command leads.
LEMMA RollBackGoes ==
  ASSUME RollBack
  PROVE  phase' \in {"restore", "idle"}
BY DEF RollBack, Goto, Report

\* The services that do not roll are none of the cutover's business.
LEMMA UpRestRefines ==
  ASSUME RolloutInv, UpRest
  PROVE  Flow' /\ Refines
<1>1. /\ phase = "rest" /\ phase' \in {"list", "restore", "idle"}
      /\ UNCHANGED <<next, before, ready, exited>>
      /\ \E S \in SUBSET Rest : containers' = Up(S, version)
  BY RollBackGoes DEF UpRest, Goto
<1>2. \A u \in RolledService : Running(u)' = Running(u)
  BY <1>1, RunningUpRest DEF RolloutInv
<1>3. Flow'
  BY <1>1, <1>2, CurIsNext DEF RolloutInv, Flow, Cur, Rolling, Watched, Earlier
<1>4. Stage = "cutover" /\ Stage' \in {"cutover", "restore", "idle"}
  BY <1>1 DEF Stage
<1>5. Kept' = Kept /\ Fresh' = Fresh
  BY <1>1, <1>2, SeenOfNone
<1>. QED BY <1>1, <1>3, <1>4, <1>5, CurIsNext, CutoverStep DEF RolloutInv

\* Listing looks, and remembers what is to be drained later.
LEMMA ListOldRefines ==
  ASSUME RolloutInv, ListOld
  PROVE  Flow' /\ Refines
<1>1. /\ phase = "list" /\ phase' \in {"first", "canary", "restore", "idle"}
      /\ UNCHANGED <<next, before, ready, exited, containers>>
      /\ phase' = "first" => Of(Cur) = {}
      /\ phase' = "canary" => oldIDs' = IdsOf(Of(Cur)) /\ newIDs' = {}
  BY RollBackGoes DEF ListOld, Goto
<1>2. \A u : Running(u)' = Running(u)
  BY <1>1 DEF Running, IdsOf, Of
<1>3. \A id \in Running(Cur) : id.service = Cur
  BY RunningIds
<1>4. Flow'
  BY <1>1, <1>2, <1>3, CurIsNext DEF RolloutInv, Flow, Cur, Rolling, Watched, Earlier, Running, IdsOf
<1>5. Stage = "cutover" /\ Stage' \in {"cutover", "restore", "idle"}
  BY <1>1 DEF Stage
<1>6. Kept' = Kept /\ Fresh' = Fresh
  BY <1>1, <1>2, SeenOfNone
<1>. QED BY <1>1, <1>4, <1>5, <1>6, CurIsNext, CutoverStep DEF RolloutInv

\* The way on: the next service, of which only old containers run, or the end.
LEMMA AdvanceFlow ==
  ASSUME RolloutInv, phase \in {"first", "drain"}, Advance, before' = before,
         ready' = ready, NEW s, s = Cur,
         \A u \in RolledService \ {s} : Running(u)' \subseteq Running(u)
  PROVE  Flow' /\ phase' \in {"list", "verify"}
<1>1. phase' \in {"list", "verify"} /\ (phase' = "list" => next' = next + 1)
  BY DEF Advance, Goto
<1>2. CASE phase' = "list"
  <2>1. PICK n : n = next + 1
    OBVIOUS
  <2>. next \in Nat /\ next' = n /\ n \in 1 .. Len(Rolled)
    BY <1>1, <1>2, <2>1, RolledFacts DEF Advance, RolloutInv, Types, Goto
  <2>2. \A i \in n .. Len(Rolled) : Running(Rolled[i])' \subseteq before
    BY <2>1, CurIsNext DEF RolloutInv, Flow, Rolling
  <2>3. ready \subseteq Earlier(n)
    BY <2>1, CurIsNext DEF RolloutInv, Flow, Rolling
  <2>4. Running(Rolled[n])' \subseteq before
    BY <2>2, RolledFacts
  <2>5. \A i \in n + 1 .. Len(Rolled) : Running(Rolled[i])' \subseteq before
    BY <2>2, RolledFacts
  <2>. QED BY <1>2, <2>3, <2>4, <2>5 DEF Flow, Cur, Rolling, Watched, Earlier, Running
<1>3. CASE phase' = "verify"
  BY <1>3 DEF Flow, Rolling, Watched
<1>. QED BY <1>1, <1>2, <1>3

\* A first container of a service that has none is a start.
LEMMA FirstUpRefines ==
  ASSUME RolloutInv, FirstUp
  PROVE  Flow' /\ Refines
<1>. PICK s \in RolledService : s = Cur
  BY CurIsNext DEF RolloutInv
<1>1. /\ phase = "first" /\ UNCHANGED <<before, ready, exited>>
      /\ containers' \in {containers, Up({s}, version)}
      /\ Advance \/ phase' \in {"restore", "idle"}
  BY RollBackGoes DEF FirstUp
<1>2. Running(s) = {}
  BY <1>1, CurIsNext DEF RolloutInv, Flow
<1>3. /\ \A u \in RolledService \ {s} : Running(u)' = Running(u)
      /\ \/ Running(s)' = {} /\ containers' = containers
         \/ \E id : id \notin before /\ Running(s)' = {id}
  <2>1. CASE containers' = containers
    BY <1>2, <2>1 DEF Running, IdsOf, Of
  <2>2. CASE containers' = Up({s}, version)
    BY <1>2, <2>2, UpOfNone, RunningAdded DEF RolloutInv
  <2>. QED BY <1>1, <2>1, <2>2
<1>4. Flow' /\ phase' \in {"list", "verify", "restore", "idle"}
  <2>1. CASE Advance
    BY <1>1, <1>3, <2>1, AdvanceFlow
  <2>2. CASE phase' \in {"restore", "idle"}
    BY <2>2 DEF Flow, Rolling, Watched
  <2>. QED BY <1>1, <2>1, <2>2
<1>5. Stage = "cutover" /\ Stage' \in {"cutover", "restore", "idle"}
  BY <1>1, <1>4 DEF Stage
<1>6. /\ Kept' = IF Running(s)' \cap before = {} THEN Kept \ {s} ELSE Kept \cup {s}
      /\ Fresh' = IF Running(s)' \subseteq before THEN Fresh \ {s} ELSE Fresh \cup {s}
  BY <1>1, <1>2, <1>3, SeenOfOne
<1>7. s \notin Kept /\ s \notin Fresh
  BY <1>2, Seen
<1>8. Kept' = Kept /\ Fresh' \in {Fresh, Fresh \cup {s}}
  BY <1>3, <1>6, <1>7
<1>. QED BY <1>1, <1>2, <1>4, <1>5, <1>8, CutoverStep

\* A canary is a start.
LEMMA StartCanaryRefines ==
  ASSUME RolloutInv, StartCanary
  PROVE  Flow' /\ Refines
<1>. PICK s \in RolledService : s = Cur
  BY CurIsNext DEF RolloutInv
<1>1. /\ phase = "canary" /\ phase' \in {"poll", "cleanup"}
      /\ UNCHANGED <<next, oldIDs, newIDs, before, ready, exited>>
      /\ containers' \in {containers, containers \cup {NewContainer(s, version)}}
  BY DEF StartCanary, Goto
<1>2. Running(s) \subseteq before
  BY <1>1, CurIsNext DEF RolloutInv, Flow
<1>3. /\ \A u \in RolledService \ {s} : Running(u)' = Running(u)
      /\ \/ Running(s)' = Running(Cur)
         \/ \E id : id \notin before /\ Running(s)' = Running(s) \cup {id}
  <2>1. CASE containers' = containers
    BY <2>1 DEF Running, IdsOf, Of
  <2>2. CASE containers' = containers \cup {NewContainer(s, version)}
    BY <1>2, <2>2, RunningAdded DEF RolloutInv
  <2>. QED BY <1>1, <2>1, <2>2
<1>4. Cur' = Cur
  BY <1>1 DEF Cur
<1>5. Running(s)' \cap before \subseteq oldIDs
  BY <1>1, <1>3 DEF RolloutInv, Flow, Watched
<1>6. Flow'
  BY <1>1, <1>3, <1>4, <1>5, CurIsNext DEF RolloutInv, Flow, Rolling, Watched, Earlier, Running
<1>7. Stage = "cutover" /\ Stage' \in {"cutover", "restore", "idle"}
  BY <1>1 DEF Stage
<1>8. /\ Kept' = IF Running(s)' \cap before = {} THEN Kept \ {s} ELSE Kept \cup {s}
      /\ Fresh' = IF Running(s)' \subseteq before THEN Fresh \ {s} ELSE Fresh \cup {s}
  BY <1>1, <1>2, <1>3, SeenOfOne
<1>9. s \in Kept <=> Running(s) \cap before # {}
  BY <1>2, Seen
<1>10. s \notin Fresh
  BY <1>2, Seen
<1>11. Kept' = Kept /\ Fresh' \in {Fresh, Fresh \cup {s}}
  BY <1>2, <1>3, <1>8, <1>9, <1>10
<1>. QED BY <1>1, <1>2, <1>6, <1>7, <1>11, CutoverStep

\* Cleaning up gives up a canary no poll has seen healthy.
LEMMA CleanupCanaryRefines ==
  ASSUME RolloutInv, CleanupCanary
  PROVE  Flow' /\ Refines
<1>. PICK s \in RolledService : s = Cur
  BY CurIsNext DEF RolloutInv
<1>1. /\ phase = "cleanup" /\ phase' \in {"restore", "idle"}
      /\ UNCHANGED <<before, ready, exited>>
      /\ \E gone \in SUBSET (Running(s) \ oldIDs) : containers' = Removed(gone)
  <2>1. Removed({}) = containers
    BY DEF Removed
  <2>. QED BY <2>1, RollBackGoes, RemovedSome DEF CleanupCanary, Running
<1>2. PICK gone \in SUBSET (Running(s) \ oldIDs) : containers' = Removed(gone)
  BY <1>1
<1>3. \A u : Running(u)' = Running(u) \ gone
  BY <1>2, RunningRemoved
<1>4. /\ Running(s) \cap before \subseteq oldIDs /\ s \notin ready
      /\ \A id \in gone : id.service = s /\ id \notin before
  BY <1>1, CurIsNext, RunningIds DEF RolloutInv, Flow, Watched, Rolling
<1>5. ASSUME NEW u \in RolledService \ {s} PROVE Running(u)' = Running(u)
  <2>1. \A id \in Running(u) : id.service = u
    BY RunningIds
  <2>2. Running(u) \cap gone = {}
    BY <1>4, <2>1
  <2>. QED BY <1>3, <2>2
<1>6. Flow'
  BY <1>1 DEF Flow, Rolling, Watched
<1>7. Stage = "cutover" /\ Stage' \in {"cutover", "restore", "idle"}
  BY <1>1 DEF Stage
<1>8. /\ Kept' = IF Running(s)' \cap before = {} THEN Kept \ {s} ELSE Kept \cup {s}
      /\ Fresh' = IF Running(s)' \subseteq before THEN Fresh \ {s} ELSE Fresh \cup {s}
  BY <1>1, <1>5, SeenOfOne
<1>9. /\ s \in Kept <=> Running(s) \cap before # {}
      /\ s \in Fresh <=> ~(Running(s) \subseteq before)
  BY Seen
<1>10. Running(s)' \cap before = Running(s) \cap before /\ Running(s)' \subseteq Running(s)
  BY <1>3, <1>4
<1>11. Kept' = Kept
  BY <1>8, <1>9, <1>10
<1>12. Fresh' \in {Fresh, Fresh \ {s}}
  <2>1. CASE Running(s)' \subseteq before
    BY <1>8, <2>1
  <2>2. CASE ~(Running(s)' \subseteq before)
    <3>1. s \in Fresh
      BY <1>9, <1>10, <2>2
    <3>. QED BY <1>8, <2>2, <3>1
  <2>. QED BY <2>1, <2>2
<1>. QED BY <1>1, <1>4, <1>6, <1>7, <1>11, <1>12, CutoverStep

\* A poll that finds the canary healthy is what makes its service ready.
LEMMA PollRefines ==
  ASSUME RolloutInv, Poll
  PROVE  Flow' /\ Refines
<1>. PICK s \in RolledService : s = Cur
  BY CurIsNext DEF RolloutInv
<1>1. /\ phase \in {"poll", "wait"} /\ phase' \in {"wait", "drain"}
      /\ UNCHANGED <<containers, next, oldIDs, before, exited>>
      /\ newIDs' \in {newIDs, Running(s) \ oldIDs}
      /\ \/ phase' = "wait" /\ ready' = ready
         \/ phase' = "drain" /\ ready' = ready \cup {s} /\ \E c \in Of(s) : c.id \notin oldIDs
  BY DEF Poll, Goto, Running
<1>2. \A u : Running(u)' = Running(u)
  BY <1>1 DEF Running, IdsOf, Of
<1>3. Cur' = Cur
  BY <1>1 DEF Cur
<1>4. \A id \in newIDs' : id.service = s /\ id \notin before
  BY <1>1, RunningIds DEF RolloutInv, Flow, Watched
<1>5. Flow'
  BY <1>1, <1>2, <1>3, <1>4, CurIsNext DEF RolloutInv, Flow, Rolling, Watched, Earlier, Running
<1>6. Stage = "cutover" /\ Stage' \in {"cutover", "restore", "idle"}
  BY <1>1 DEF Stage
<1>7. Kept' = Kept /\ Fresh' = Fresh
  BY <1>1, <1>2, SeenOfNone
<1>8. phase' = "drain" => s \in Fresh
  <2>1. \A c \in Of(s) : c.id \in Running(s)
    BY DEF Running, IdsOf
  <2>. QED BY <1>1, <2>1, Seen DEF RolloutInv, Flow, Watched
<1>. QED BY <1>1, <1>5, <1>6, <1>7, <1>8, CutoverStep

\* The wait that runs out gives up a canary no poll has seen healthy.
LEMMA GiveUpCanaryRefines ==
  ASSUME RolloutInv, GiveUpCanary
  PROVE  Flow' /\ Refines
<1>. PICK s \in RolledService : s = Cur
  BY CurIsNext DEF RolloutInv
<1>1. /\ phase = "wait" /\ phase' = "idle"
      /\ UNCHANGED <<before, ready, exited>>
      /\ \E gone \in SUBSET newIDs : containers' = Removed(gone)
  BY RemovedSome DEF GiveUpCanary, Report, Goto
<1>2. PICK gone \in SUBSET newIDs : containers' = Removed(gone)
  BY <1>1
<1>3. \A u : Running(u)' = Running(u) \ gone
  BY <1>2, RunningRemoved
<1>4. s \notin ready /\ \A id \in gone : id.service = s /\ id \notin before
  BY <1>1, CurIsNext DEF RolloutInv, Flow, Rolling
<1>5. ASSUME NEW u \in RolledService \ {s} PROVE Running(u)' = Running(u)
  <2>1. \A id \in Running(u) : id.service = u
    BY RunningIds
  <2>2. Running(u) \cap gone = {}
    BY <1>4, <2>1
  <2>. QED BY <1>3, <2>2
<1>6. Flow'
  BY <1>1 DEF Flow, Rolling, Watched
<1>7. Stage = "cutover" /\ Stage' \in {"cutover", "restore", "idle"}
  BY <1>1 DEF Stage
<1>8. /\ Kept' = IF Running(s)' \cap before = {} THEN Kept \ {s} ELSE Kept \cup {s}
      /\ Fresh' = IF Running(s)' \subseteq before THEN Fresh \ {s} ELSE Fresh \cup {s}
  BY <1>1, <1>5, SeenOfOne
<1>9. /\ s \in Kept <=> Running(s) \cap before # {}
      /\ s \in Fresh <=> ~(Running(s) \subseteq before)
  BY Seen
<1>10. Running(s)' \cap before = Running(s) \cap before /\ Running(s)' \subseteq Running(s)
  BY <1>3, <1>4
<1>11. Kept' = Kept
  BY <1>8, <1>9, <1>10
<1>12. Fresh' \in {Fresh, Fresh \ {s}}
  <2>1. CASE Running(s)' \subseteq before
    BY <1>8, <2>1
  <2>2. CASE ~(Running(s)' \subseteq before)
    <3>1. s \in Fresh
      BY <1>9, <1>10, <2>2
    <3>. QED BY <1>8, <2>2, <3>1
  <2>. QED BY <2>1, <2>2
<1>. QED BY <1>1, <1>4, <1>6, <1>7, <1>11, <1>12, CutoverStep

\* Draining removes old containers of a service that is ready.
LEMMA DrainOldRefines ==
  ASSUME RolloutInv, DrainOld
  PROVE  Flow' /\ Refines
<1>. PICK s \in RolledService : s = Cur
  BY CurIsNext DEF RolloutInv
<1>1. /\ phase = "drain" /\ Advance
      /\ UNCHANGED <<before, ready, exited>>
      /\ \E gone \in SUBSET oldIDs : containers' = Removed(gone)
  BY RemovedSome DEF DrainOld
<1>2. PICK gone \in SUBSET oldIDs : containers' = Removed(gone)
  BY <1>1
<1>3. \A u : Running(u)' = Running(u) \ gone
  BY <1>2, RunningRemoved
<1>4. s \in ready /\ \A id \in gone : id.service = s /\ id \in before
  BY <1>1 DEF RolloutInv, Flow, Rolling, Watched
<1>5. ASSUME NEW u \in RolledService \ {s} PROVE Running(u)' = Running(u)
  <2>1. \A id \in Running(u) : id.service = u
    BY RunningIds
  <2>2. Running(u) \cap gone = {}
    BY <1>4, <2>1
  <2>. QED BY <1>3, <2>2
<1>6. Flow' /\ phase' \in {"list", "verify"}
  BY <1>1, <1>5, AdvanceFlow
<1>7. Stage = "cutover" /\ Stage' \in {"cutover", "restore", "idle"}
  BY <1>1, <1>6 DEF Stage
<1>8. /\ Kept' = IF Running(s)' \cap before = {} THEN Kept \ {s} ELSE Kept \cup {s}
      /\ Fresh' = IF Running(s)' \subseteq before THEN Fresh \ {s} ELSE Fresh \cup {s}
  BY <1>1, <1>5, SeenOfOne
<1>9. /\ s \in Kept <=> Running(s) \cap before # {}
      /\ s \in Fresh <=> ~(Running(s) \subseteq before)
  BY Seen
<1>10. Running(s)' \subseteq before <=> Running(s) \subseteq before
  BY <1>3, <1>4
<1>11. Kept' \in {Kept, Kept \ {s}}
  BY <1>3, <1>8, <1>9
<1>12. Fresh' = Fresh
  BY <1>8, <1>9, <1>10
<1>. QED BY <1>1, <1>4, <1>6, <1>7, <1>11, <1>12, CutoverStep

\* The probe and the hooks start and stop nothing.
LEMMA VerifyRefines ==
  ASSUME RolloutInv, Verify
  PROVE  Flow' /\ Refines
<1>1. /\ phase = "verify" /\ phase' \in {"restore", "idle"}
      /\ UNCHANGED <<containers, before, ready, exited>>
  BY RollBackGoes DEF Verify, Report, Goto
<1>2. \A u : Running(u)' = Running(u)
  BY <1>1 DEF Running, IdsOf, Of
<1>3. Flow'
  BY <1>1 DEF Flow, Rolling, Watched
<1>4. Stage = "cutover" /\ Stage' \in {"cutover", "restore", "idle"}
  BY <1>1 DEF Stage
<1>5. Kept' = Kept /\ Fresh' = Fresh
  BY <1>1, <1>2, SeenOfNone
<1>. QED BY <1>1, <1>3, <1>4, <1>5, CurIsNext, CutoverStep DEF RolloutInv

\* A restore promises nothing, and ends.
LEMMA RestoreRefines ==
  ASSUME RolloutInv, Restore
  PROVE  Flow' /\ Refines
<1>1. /\ phase = "restore" /\ phase' = "idle" /\ UNCHANGED <<before, ready, exited>>
  BY DEF Restore, Report, Goto
<1>2. Flow'
  BY <1>1 DEF Flow, Rolling, Watched
<1>3. Stage = "restore" /\ Stage' = "idle"
  BY <1>1 DEF Stage
<1>4. Kept' \subseteq RolledService /\ Fresh' \subseteq RolledService
  BY DEF Kept, Fresh
<1>5. Served' = Served /\ (exited \cap RolledService)' = exited \cap RolledService
  BY <1>1 DEF Served
<1>. QED BY <1>1, <1>2, <1>3, <1>4, <1>5 DEF Refines, CutoverOf!Next, CutoverOf!Restore, Served

-----------------------------------------------------------------------------
(* The world.                                                              *)

\* What starts nothing and leaves the deploy where it is keeps its flow.
LEMMA FlowKept ==
  ASSUME RolloutInv, UNCHANGED <<phase, next, oldIDs, newIDs, before, ready>>,
         \A u : Running(u)' \subseteq Running(u)
  PROVE  Flow'
<1>1. Cur' = Cur
  BY DEF Cur
<1>2. PICK s : s = Cur
  OBVIOUS
<1>3. Running(s)' \subseteq Running(s)
  OBVIOUS
<1>. QED BY <1>1, <1>2, <1>3 DEF RolloutInv, Flow, Rolling, Watched, Earlier, Running

\* A container that exits takes its service out of what must be kept, if anything.
LEMMA ContainerExitsRefines ==
  ASSUME RolloutInv, ContainerExits
  PROVE  Flow' /\ Refines
<1>1. PICK c \in containers :
        /\ containers' = containers \ {c} /\ exited' = exited \cup {c.id.service}
        /\ UNCHANGED <<deployVars, before, ready>>
  BY DEF ContainerExits
<1>. DEFINE s == c.id.service
<1>2. /\ \A u : Running(u)' \subseteq Running(u)
      /\ \A u : u # s => Running(u)' = Running(u)
  BY <1>1, RunningExit
<1>3. Flow'
  BY <1>1, <1>2, FlowKept DEF deployVars
<1>4. Stage' = Stage
  BY <1>1 DEF Stage, deployVars
<1>5. Served' = Served
  BY <1>1 DEF Served
<1>. HIDE DEF s
<1>6. CASE s \notin RolledService
  <2>1. Kept' = Kept /\ Fresh' = Fresh
    BY <1>1, <1>2, <1>6, SeenOfNone
  <2>2. (exited \cap RolledService)' = exited \cap RolledService
    BY <1>1, <1>6 DEF s
  <2>. QED BY <1>1, <1>3, <1>4, <1>5, <2>1, <2>2 DEF Refines, CutoverOf!vars, Served
<1>7. CASE s \in RolledService
  <2>1. /\ Kept' = IF Running(s)' \cap before = {} THEN Kept \ {s} ELSE Kept \cup {s}
        /\ Fresh' = IF Running(s)' \subseteq before THEN Fresh \ {s} ELSE Fresh \cup {s}
    BY <1>1, <1>2, <1>7, SeenOfOne
  <2>2. /\ s \in Kept <=> Running(s) \cap before # {}
        /\ s \in Fresh <=> ~(Running(s) \subseteq before)
    BY <1>7, Seen
  <2>3. Kept' \in {Kept, Kept \ {s}}
    BY <1>2, <2>1, <2>2
  <2>4. Fresh' \in {Fresh, Fresh \ {s}}
    BY <1>2, <2>1, <2>2
  <2>5. (exited \cap RolledService)' = (exited \cap RolledService) \cup {s}
    BY <1>1, <1>7 DEF s
  <2>6. CutoverOf!Exit(s)
    BY <1>1, <1>4, <1>5, <2>3, <2>4, <2>5 DEF CutoverOf!Exit, Served
  <2>. QED BY <1>3, <1>7, <2>6 DEF Refines, CutoverOf!Next
<1>. QED BY <1>6, <1>7

\* Health, shutdown and restart are no steps of the cutover.
LEMMA WorldRefines ==
  ASSUME RolloutInv, HealthChanges \/ Shutdown \/ Restart \/ UNCHANGED vars
  PROVE  Flow' /\ Refines
<1>1. UNCHANGED <<deployVars, before, ready, exited>>
  BY DEF HealthChanges, Shutdown, Restart, vars, ghosts
<1>2. \A u : Running(u)' = Running(u)
  <2>1. CASE HealthChanges
    BY <2>1, RunningHealth DEF RolloutInv
  <2>2. CASE containers' = containers
    BY <2>2 DEF Running, IdsOf, Of
  <2>. QED BY <2>1, <2>2 DEF Shutdown, Restart, vars
<1>3. Flow'
  BY <1>1, <1>2, FlowKept DEF deployVars
<1>4. Kept' = Kept /\ Fresh' = Fresh
  BY <1>1, <1>2, SeenOfNone
<1>5. Stage' = Stage /\ Served' = Served /\ (exited \cap RolledService)' = exited \cap RolledService
  BY <1>1 DEF Stage, Served, deployVars
<1>. QED BY <1>1, <1>3, <1>4, <1>5 DEF Refines, CutoverOf!vars, Served

-----------------------------------------------------------------------------

\* Every step of the rollout keeps the invariant and is a step of the cutover.
LEMMA RolloutStep == RolloutInv /\ [Next]_vars => RolloutInv' /\ Refines
<1>. SUFFICES ASSUME RolloutInv, [Next]_vars PROVE RolloutInv' /\ Refines
  OBVIOUS
<1>1. Types'
  BY TypesStep DEF RolloutInv
<1>2. Flow' /\ Refines
  BY DeployRefines, UpRestRefines, ListOldRefines, FirstUpRefines, StartCanaryRefines,
     CleanupCanaryRefines, PollRefines, GiveUpCanaryRefines, DrainOldRefines,
     VerifyRefines, RestoreRefines, ContainerExitsRefines, WorldRefines DEF Next
<1>. QED BY <1>1, <1>2 DEF RolloutInv

\* It starts as the cutover does.
LEMMA RolloutInit == Init => RolloutInv /\ CutoverOf!Init
<1>. SUFFICES ASSUME Init PROVE RolloutInv /\ CutoverOf!Init
  OBVIOUS
<1>1. Types
  BY TypesInit
<1>2. phase = "idle" /\ before = IdsOf(containers) /\ ready = {} /\ exited = {}
  BY DEF Init
<1>3. Flow
  BY <1>2 DEF Flow, Rolling, Watched
<1>4. \A s \in RolledService : Running(s) \subseteq before
  BY <1>2 DEF Running, IdsOf, Of
<1>5. Kept = {s \in RolledService : Running(s) # {}} /\ Fresh = {}
  BY <1>4, Seen
<1>6. Served = {s \in RolledService : Running(s) # {}}
  BY <1>2 DEF Served, Running, IdsOf, Of
<1>7. Stage = "idle"
  BY <1>2 DEF Stage
<1>. QED BY <1>1, <1>2, <1>3, <1>5, <1>6, <1>7 DEF RolloutInv, CutoverOf!Init, Served

\* The rollout of rollout.go implements the cutover the documentation promises, for
\* any number of services, deploys and faults.
THEOREM RolloutImplementsCutover == Spec => ImplementsCutover
<1>1. RolloutInv /\ [Next]_vars => [CutoverOf!Next]_(CutoverOf!vars)
  BY RolloutStep DEF Refines
<1>. QED BY <1>1, RolloutInit, RolloutStep, PTL DEF Spec, ImplementsCutover, CutoverOf!Spec

\* A step of the cutover keeps its promise.
LEMMA PromiseStep ==
  ASSUME CutoverOf!KeptUntilReady, Refines
  PROVE  CutoverOf!KeptUntilReady'
BY DEF Refines, CutoverOf!KeptUntilReady, CutoverOf!vars, CutoverOf!Next, CutoverOf!Begin,
       CutoverOf!End, CutoverOf!Restore, CutoverOf!Start, CutoverOf!SeenHealthy,
       CutoverOf!Drain, CutoverOf!GiveUp, CutoverOf!Exit, CutoverOf!Step

\* So while a deploy rolls its services over, each one that ran when it began still
\* runs a container from then, until a poll saw a new one healthy (rollService).
THEOREM OldServesUntilReady == Spec => []CutoverOf!KeptUntilReady
<1>1. CutoverOf!Init => CutoverOf!KeptUntilReady
  BY DEF CutoverOf!Init, CutoverOf!KeptUntilReady
<1>2. CutoverOf!KeptUntilReady /\ RolloutInv /\ [Next]_vars =>
        CutoverOf!KeptUntilReady' /\ RolloutInv'
  BY RolloutStep, PromiseStep
<1>. QED BY <1>1, <1>2, RolloutInit, PTL DEF Spec

-----------------------------------------------------------------------------
(* A deploy that meets no fault.                                           *)

BeforeOf(s) == {id \in before : id.service = s}
OneNew(s) == \E c \in Container : Of(s) = {c} /\ c.version = version

\* The old containers of a service and one canary beside them.
Beside(s) ==
    /\ oldIDs \subseteq Running(s)
    /\ \E c \in Of(s) : /\ c.version = version /\ c.id \notin oldIDs
                        /\ \A d \in Of(s) : d = c \/ d.id \in oldIDs

\* Services not reached yet run what they ran.
UntouchedOK ==
    phase \in Rolling =>
        \A i \in next + 1 .. Len(Rolled) : Running(Rolled[i]) = BeforeOf(Rolled[i])

\* The one being rolled does too, and then a canary beside it.
CurOK ==
    \A s \in RolledService : s = Cur =>
        /\ phase \in {"rest", "list", "first", "canary"} => Running(s) = BeforeOf(s)
        /\ phase \in {"canary", "poll", "wait", "drain"} => oldIDs = BeforeOf(s)
        /\ phase \in {"poll", "wait", "drain"} => Beside(s)
        /\ phase = "wait" => newIDs = Running(s) \ oldIDs

\* The others run one container of the new version each.
DoneOK ==
    /\ phase \in Rolling => \A i \in 1 .. next - 1 : OneNew(Rolled[i])
    /\ phase \in Rolling \ {"rest"} => \A s \in Rest : OneNew(s)
    /\ phase = "verify" \/ (phase = "idle" /\ outcome = "success") =>
            \A s \in Service : OneNew(s)

\* NoCanaryLeft and LeftoversGone, made inductive.
Clean ==
    flawless =>
        /\ ~cancelled /\ phase \notin {"cleanup", "restore"}
        /\ UntouchedOK /\ CurOK /\ DoneOK
        /\ NoCanaryLeft

CleanInv == RolloutInv /\ Clean

\* What up makes of a service is one container of the version; the other services
\* it leaves alone.
LEMMA OfUp ==
  ASSUME Types, NEW S \in SUBSET Service, containers' = Up(S, version), version' = version
  PROVE  /\ \A s \in S : OneNew(s)'
         /\ \A s : s \notin S => Of(s)' = Of(s)
<1>1. \A s \in S : /\ Upped(s, version) \in Container /\ Upped(s, version).id.service = s
                   /\ Upped(s, version).version = version
  BY UppedIsOne DEF Types
<1>2. \A s \in S : Of(s)' = {Upped(s, version)}
  BY <1>1 DEF Of, Up
<1>3. \A s : s \notin S => Of(s)' = Of(s)
  BY <1>1 DEF Of, Up
<1>. QED BY <1>1, <1>2, <1>3 DEF OneNew

\* A step that is not about a service leaves what is said of it true.
LEMMA SameOf ==
  ASSUME NEW s, Of(s)' = Of(s), UNCHANGED <<version, before, oldIDs>>
  PROVE  /\ Running(s)' = Running(s) /\ BeforeOf(s)' = BeforeOf(s)
         /\ OneNew(s)' <=> OneNew(s)
         /\ Beside(s)' <=> Beside(s)
BY DEF Running, IdsOf, BeforeOf, OneNew, Beside

\* A deploy begins: every service runs what it ran before.
LEMMA DeployClean ==
  ASSUME CleanInv, Deploy
  PROVE  Clean'
<1>1. /\ ~cancelled' /\ before' = IdsOf(containers) /\ containers' = containers
      /\ next' = 1 /\ phase' \in {"list", "rest"} /\ phase' = IF Rest = {} THEN "list" ELSE "rest"
  BY DEF Deploy, Goto
<1>2. \A s : Running(s)' = BeforeOf(s)'
  BY <1>1 DEF Running, IdsOf, BeforeOf, Of
<1>3. UntouchedOK' /\ CurOK'
  BY <1>1, <1>2 DEF UntouchedOK, CurOK
<1>4. DoneOK'
  BY <1>1 DEF DoneOK
<1>. QED BY <1>1, <1>3, <1>4 DEF Clean, NoCanaryLeft

\* Without a fault every command succeeds.
LEMMA NoFailure ==
  ASSUME Clean, flawless', NEW f
  PROVE  ~Fails(f)
BY DEF Clean, Fails, Fault

\* Without a fault all the containers named are removed.
LEMMA RemovedAll ==
  ASSUME CleanInv, flawless', NEW ids, RemoveContainers(ids)
  PROVE  flawless /\ ~cancelled /\ containers' = Removed(ids)
<1>1. Removed({}) = containers
  BY DEF Removed
<1>2. flawless
  BY NoFailure DEF RemoveContainers, Succeeds, CleanInv
<1>. QED BY <1>1, <1>2, NoFailure DEF RemoveContainers, CleanInv, Clean

\* The services that do not roll come up.
LEMMA UpRestClean ==
  ASSUME CleanInv, UpRest, flawless'
  PROVE  Clean'
<1>1. /\ phase = "rest" /\ flawless /\ ~cancelled' /\ containers' = Up(Rest, version)
      /\ phase' = "list" /\ UNCHANGED <<version, before, next, oldIDs>>
  BY NoFailure DEF UpRest, Succeeds, Goto, CleanInv
<1>2. /\ \A s \in Rest : OneNew(s)'
      /\ \A s : s \notin Rest => Of(s)' = Of(s)
  BY <1>1, OfUp, RolledFacts DEF CleanInv, RolloutInv
<1>3. ASSUME NEW s \in RolledService
      PROVE  Running(s)' = Running(s) /\ BeforeOf(s)' = BeforeOf(s) /\ (OneNew(s)' <=> OneNew(s))
  BY <1>1, <1>2, SameOf, RolloutAssumption
<1>4. UntouchedOK /\ CurOK /\ DoneOK
  BY <1>1 DEF CleanInv, Clean
<1>5. UntouchedOK'
  BY <1>1, <1>3, <1>4, CurIsNext DEF CleanInv, RolloutInv, UntouchedOK, Rolling
<1>6. CurOK'
  BY <1>1, <1>3, <1>4 DEF CurOK, Cur
<1>7. DoneOK'
  <2>1. \A i \in 1 .. next - 1 : Rolled[i] \in RolledService
    BY RolledFacts DEF CleanInv, RolloutInv, Types
  <2>. QED BY <1>1, <1>2, <1>3, <1>4, <2>1 DEF DoneOK, Rolling
<1>. QED BY <1>1, <1>5, <1>6, <1>7 DEF Clean, NoCanaryLeft

\* Listing finds the containers from before the deploy.
LEMMA ListOldClean ==
  ASSUME CleanInv, ListOld, flawless'
  PROVE  Clean'
<1>1. /\ phase = "list" /\ flawless /\ ~cancelled' /\ phase' \in {"first", "canary"}
      /\ oldIDs' = Running(Cur)
      /\ UNCHANGED <<containers, version, before, next>>
  BY NoFailure DEF ListOld, Succeeds, Goto, CleanInv, Running
<1>2. ASSUME NEW s
      PROVE  Running(s)' = Running(s) /\ BeforeOf(s)' = BeforeOf(s) /\ (OneNew(s)' <=> OneNew(s))
  BY <1>1 DEF Running, IdsOf, Of, BeforeOf, OneNew
<1>3. UntouchedOK /\ CurOK /\ DoneOK
  BY <1>1 DEF CleanInv, Clean
<1>4. UntouchedOK' /\ DoneOK'
  BY <1>1, <1>2, <1>3 DEF UntouchedOK, DoneOK, Rolling
<1>5. CurOK'
  BY <1>1, <1>2, <1>3 DEF CurOK, Cur
<1>. QED BY <1>1, <1>4, <1>5 DEF Clean, NoCanaryLeft

\* The way on, with one service more that is done.
LEMMA AdvanceClean ==
  ASSUME CleanInv, flawless, phase \in {"first", "drain"}, Advance,
         UNCHANGED <<version, before, cancelled>>,
         NEW s \in RolledService, s = Cur, OneNew(s)',
         \A u \in Service \ {s} : Of(u)' = Of(u)
  PROVE  Clean'
<1>1. ASSUME NEW u \in Service \ {s}
      PROVE  Running(u)' = Running(u) /\ BeforeOf(u)' = BeforeOf(u) /\ (OneNew(u)' <=> OneNew(u))
  BY <1>1 DEF Running, IdsOf, BeforeOf, OneNew
<1>2. UntouchedOK /\ DoneOK /\ ~cancelled' /\ next \in 1 .. Len(Rolled) /\ Len(Rolled) \in Nat
  BY RolledFacts DEF CleanInv, Clean, RolloutInv, Types
<1>3. \A u \in Rest : OneNew(u)'
  BY <1>1, <1>2, RolledFacts, RolloutAssumption DEF DoneOK, Rolling
<1>4. \A i \in 1 .. next : OneNew(Rolled[i])'
  <2>1. ASSUME NEW i \in 1 .. next - 1 PROVE OneNew(Rolled[i])'
    <3>1. Rolled[i] \in Service \ {s}
      BY <1>2, RolledFacts DEF Cur
    <3>. QED BY <1>1, <1>2, <3>1 DEF DoneOK, Rolling
  <2>. QED BY <1>2, <2>1 DEF Cur
<1>5. CASE next < Len(Rolled)
  <2>1. phase' = "list" /\ next' = next + 1
    BY <1>5 DEF Advance, Goto
  <2>2. ASSUME NEW i \in next + 1 .. Len(Rolled) PROVE Running(Rolled[i])' = BeforeOf(Rolled[i])'
    <3>1. Rolled[i] \in Service \ {s}
      BY <1>2, RolledFacts DEF Cur
    <3>. QED BY <1>1, <1>2, <3>1 DEF UntouchedOK, Rolling
  <2>3. UntouchedOK'
    BY <1>2, <2>1, <2>2 DEF UntouchedOK
  <2>4. CurOK'
    BY <1>2, <1>5, <2>1, <2>2 DEF CurOK, Cur
  <2>5. DoneOK'
    <3>1. \A i \in 1 .. next' - 1 : i \in 1 .. next
      BY <1>2, <2>1
    <3>2. \A i \in 1 .. next' - 1 : OneNew(Rolled[i])'
      BY <1>4, <3>1
    <3>. QED BY <1>3, <2>1, <3>2 DEF DoneOK
  <2>. QED BY <1>2, <2>1, <2>3, <2>4, <2>5 DEF Clean, NoCanaryLeft
<1>6. CASE ~(next < Len(Rolled))
  <2>1. phase' = "verify" /\ next = Len(Rolled)
    BY <1>2, <1>6 DEF Advance, Goto
  <2>2. \A u \in Service : OneNew(u)'
    BY <1>3, <1>4, <2>1, RolledFacts DEF Service, RolledService
  <2>. QED BY <1>2, <2>1, <2>2 DEF Clean, NoCanaryLeft, UntouchedOK, CurOK, DoneOK, Rolling
<1>. QED BY <1>5, <1>6

\* A first container is the only one of its service.
LEMMA FirstUpClean ==
  ASSUME CleanInv, FirstUp, flawless'
  PROVE  Clean'
<1>. PICK s \in RolledService : s = Cur
  BY CurIsNext DEF CleanInv, RolloutInv
<1>1. /\ phase = "first" /\ flawless /\ containers' = Up({s}, version) /\ Advance
      /\ UNCHANGED <<version, before, cancelled>>
  BY NoFailure DEF FirstUp, Succeeds, CleanInv
<1>2. OneNew(s)' /\ \A u \in Service \ {s} : Of(u)' = Of(u)
  BY <1>1, OfUp, RolledFacts DEF CleanInv, RolloutInv
<1>. QED BY <1>1, <1>2, AdvanceClean

\* Steps about the service being rolled that do not move on to the next one.
LEMMA StayClean ==
  ASSUME CleanInv, flawless, flawless', phase \in Rolling \ {"rest"}, phase' \in Rolling \ {"rest"},
         phase' # "cleanup", UNCHANGED <<version, before, next, cancelled>>,
         NEW s \in RolledService, s = Cur, CurOK',
         \A u \in Service \ {s} : Of(u)' = Of(u)
  PROVE  Clean'
<1>1. ASSUME NEW u \in Service \ {s}
      PROVE  Running(u)' = Running(u) /\ BeforeOf(u)' = BeforeOf(u) /\ (OneNew(u)' <=> OneNew(u))
  BY <1>1 DEF Running, IdsOf, BeforeOf, OneNew
<1>2. UntouchedOK /\ DoneOK /\ ~cancelled' /\ next \in 1 .. Len(Rolled) /\ Len(Rolled) \in Nat
  BY RolledFacts DEF CleanInv, Clean, RolloutInv, Types
<1>3. \A i \in 1 .. Len(Rolled) : i # next => Rolled[i] \in Service \ {s}
  BY <1>2, RolledFacts DEF Cur
<1>4. UntouchedOK'
  BY <1>1, <1>2, <1>3 DEF UntouchedOK
<1>5. DoneOK'
  <2>1. \A u \in Rest : u \in Service \ {s}
    BY RolledFacts, RolloutAssumption
  <2>. QED BY <1>1, <1>2, <1>3, <2>1 DEF DoneOK, Rolling
<1>. QED BY <1>2, <1>4, <1>5 DEF Clean, NoCanaryLeft, Rolling

\* One canary is added to the containers from before.
LEMMA StartCanaryClean ==
  ASSUME CleanInv, StartCanary, flawless'
  PROVE  Clean'
<1>. PICK s \in RolledService : s = Cur
  BY CurIsNext DEF CleanInv, RolloutInv
<1>. DEFINE c == NewContainer(s, version)
<1>1. /\ phase = "canary" /\ flawless /\ containers' = containers \cup {c} /\ phase' = "poll"
      /\ UNCHANGED <<version, before, next, oldIDs, cancelled>>
  BY NoFailure DEF StartCanary, Succeeds, Goto, CleanInv
<1>2. c.id.service = s /\ c.id \notin oldIDs /\ c.version = version
  BY NewContainerIsOne, NewIdIsNew, RolledFacts DEF CleanInv, RolloutInv, Types, NewContainer
<1>. HIDE DEF c
<1>3. Of(s)' = Of(s) \cup {c} /\ \A u \in Service \ {s} : Of(u)' = Of(u)
  BY <1>1, <1>2 DEF Of
<1>4. Running(s) = BeforeOf(s) /\ oldIDs = BeforeOf(s)
  BY <1>1 DEF CleanInv, Clean, CurOK
<1>5. Beside(s)' /\ oldIDs' = BeforeOf(s)'
  BY <1>1, <1>2, <1>3, <1>4 DEF Beside, Running, IdsOf, BeforeOf
<1>6. CurOK'
  BY <1>1, <1>5 DEF CurOK, Cur
<1>. QED BY <1>1, <1>3, <1>6, StayClean DEF Rolling

\* A poll lists the canary.
LEMMA PollClean ==
  ASSUME CleanInv, Poll, flawless'
  PROVE  Clean'
<1>. PICK s \in RolledService : s = Cur
  BY CurIsNext DEF CleanInv, RolloutInv
<1>1. /\ phase \in {"poll", "wait"} /\ flawless /\ phase' \in {"wait", "drain"}
      /\ newIDs' = Running(s) \ oldIDs
      /\ UNCHANGED <<containers, version, before, next, oldIDs, cancelled>>
  BY NoFailure DEF Poll, Succeeds, Goto, CleanInv, Running
<1>2. \A u : Of(u)' = Of(u)
  BY <1>1 DEF Of
<1>3. Running(s)' = Running(s) /\ BeforeOf(s)' = BeforeOf(s) /\ (Beside(s)' <=> Beside(s))
  BY <1>1, <1>2, SameOf
<1>4. CurOK'
  BY <1>1, <1>3 DEF CleanInv, Clean, CurOK, Cur
<1>. QED BY <1>1, <1>2, <1>4, StayClean DEF Rolling

\* Giving the canary up leaves the containers from before.
LEMMA GiveUpCanaryClean ==
  ASSUME CleanInv, GiveUpCanary, flawless'
  PROVE  Clean'
<1>. PICK s \in RolledService : s = Cur
  BY CurIsNext DEF CleanInv, RolloutInv
<1>1. /\ phase = "wait" /\ flawless /\ ~cancelled' /\ phase' = "idle" /\ outcome' = "rolled_back"
      /\ containers' = Removed(newIDs) /\ UNCHANGED <<before, next>>
  BY RemovedAll DEF GiveUpCanary, Report, Goto
<1>2. \A u : Running(u)' = Running(u) \ newIDs
  BY <1>1, RunningRemoved
<1>3. newIDs = Running(s) \ oldIDs /\ oldIDs = BeforeOf(s) /\ oldIDs \subseteq Running(s)
  BY <1>1 DEF CleanInv, Clean, CurOK, Beside
<1>4. Running(s)' = BeforeOf(s)
  BY <1>2, <1>3
<1>5. next \in 1 .. Len(Rolled) /\ Len(Rolled) \in Nat
  BY RolledFacts DEF CleanInv, RolloutInv, Types
<1>6. ASSUME NEW i \in next + 1 .. Len(Rolled) PROVE Running(Rolled[i])' = BeforeOf(Rolled[i])
  <2>1. Rolled[i] # s /\ \A id \in newIDs : id.service = s
    BY <1>3, <1>5, RolledFacts, RunningIds DEF Cur
  <2>2. \A id \in BeforeOf(Rolled[i]) : id.service = Rolled[i]
    BY DEF BeforeOf
  <2>3. Running(Rolled[i]) = BeforeOf(Rolled[i])
    BY <1>1 DEF CleanInv, Clean, UntouchedOK, Rolling
  <2>4. Running(Rolled[i]) \ newIDs = BeforeOf(Rolled[i])
    BY <2>1, <2>2, <2>3
  <2>5. Running(Rolled[i])' = Running(Rolled[i]) \ newIDs
    BY <1>2
  <2>. QED BY <2>4, <2>5
<1>7. \A i \in next .. Len(Rolled) : Running(Rolled[i])' = BeforeOf(Rolled[i])
  BY <1>4, <1>5, <1>6 DEF Cur
<1>8. NoCanaryLeft'
  BY <1>1, <1>7 DEF NoCanaryLeft, Running, BeforeOf
<1>. QED BY <1>1, <1>8 DEF Clean, UntouchedOK, CurOK, DoneOK, Rolling

\* Draining leaves the canary alone.
LEMMA DrainOldClean ==
  ASSUME CleanInv, DrainOld, flawless'
  PROVE  Clean'
<1>. PICK s \in RolledService : s = Cur
  BY CurIsNext DEF CleanInv, RolloutInv
<1>1. /\ phase = "drain" /\ flawless /\ containers' = Removed(oldIDs) /\ Advance
      /\ UNCHANGED <<version, before, cancelled>>
  BY RemovedAll DEF DrainOld
<1>2. \A u : Of(u)' = {c \in Of(u) : c.id \notin oldIDs}
  BY <1>1 DEF Of, Removed
<1>3. Beside(s) /\ oldIDs = BeforeOf(s)
  BY <1>1 DEF CleanInv, Clean, CurOK
<1>4. OneNew(s)'
  BY <1>1, <1>2, <1>3 DEF Beside, OneNew, Of, CleanInv, RolloutInv, Types
<1>5. \A u \in Service \ {s} : Of(u)' = Of(u)
  BY <1>2, <1>3 DEF BeforeOf, Of
<1>. QED BY <1>1, <1>4, <1>5, AdvanceClean

\* A deploy is recorded when it is verified.
LEMMA VerifyClean ==
  ASSUME CleanInv, Verify, flawless'
  PROVE  Clean'
<1>1. /\ phase = "verify" /\ flawless /\ ~cancelled' /\ phase' = "idle" /\ outcome' = "success"
      /\ UNCHANGED <<containers, version>>
  BY NoFailure DEF Verify, Report, Goto, CleanInv, Clean
<1>2. DoneOK'
  BY <1>1 DEF CleanInv, Clean, DoneOK, Rolling, OneNew, Of
<1>. QED BY <1>1, <1>2 DEF Clean, NoCanaryLeft, UntouchedOK, CurOK, Rolling

\* Health changes neither what runs nor its version.
LEMMA HealthClean ==
  ASSUME CleanInv, HealthChanges
  PROVE  Clean'
<1>1. PICK c \in containers, h \in BOOLEAN :
        containers' = (containers \ {c}) \cup {[c EXCEPT !.healthy = h]}
  BY DEF HealthChanges
<1>. DEFINE d == [c EXCEPT !.healthy = h]
<1>2. d.id = c.id /\ d.version = c.version /\ d \in Container
  BY DEF CleanInv, RolloutInv, Types, Container
<1>. HIDE DEF d
<1>3. UNCHANGED <<base, deployVars, cancelled, faults, ghosts>>
  BY DEF HealthChanges
<1>4. \A s : Of(s)' = IF c \in Of(s) THEN (Of(s) \ {c}) \cup {d} ELSE Of(s)
  BY <1>1, <1>2 DEF Of, d
<1>5. \A s : Running(s)' = Running(s) /\ BeforeOf(s)' = BeforeOf(s)
  BY <1>3, RunningHealth DEF BeforeOf, ghosts, CleanInv, RolloutInv
<1>6. ASSUME NEW s, OneNew(s) PROVE OneNew(s)'
  BY <1>2, <1>3, <1>4, <1>6 DEF OneNew, deployVars
<1>7. ASSUME NEW s, Beside(s) PROVE Beside(s)'
  <2>1. PICK e \in Of(s) : /\ e.version = version /\ e.id \notin oldIDs
                           /\ \A x \in Of(s) : x = e \/ x.id \in oldIDs
    BY <1>7 DEF Beside
  <2>2. oldIDs' \subseteq Running(s)'
    BY <1>3, <1>5, <1>7 DEF Beside, deployVars
  <2>3. CASE e = c
    BY <1>2, <1>3, <1>4, <2>1, <2>2, <2>3 DEF Beside, deployVars
  <2>4. CASE e # c
    BY <1>2, <1>3, <1>4, <2>1, <2>2, <2>4 DEF Beside, deployVars
  <2>. QED BY <2>3, <2>4
<1>8. CASE flawless
  <2>1. UntouchedOK' /\ DoneOK'
    BY <1>3, <1>5, <1>6, <1>8 DEF CleanInv, Clean, UntouchedOK, DoneOK, deployVars
  <2>2. CurOK'
    BY <1>3, <1>5, <1>7, <1>8 DEF CleanInv, Clean, CurOK, Cur, deployVars
  <2>3. NoCanaryLeft'
    BY <1>3, <1>5, <1>8 DEF CleanInv, Clean, NoCanaryLeft, Running, BeforeOf, deployVars
  <2>. QED BY <1>3, <1>8, <2>1, <2>2, <2>3 DEF CleanInv, Clean, deployVars
<1>. QED BY <1>3, <1>8 DEF Clean, ghosts

\* No step breaks it.
LEMMA CleanStep == CleanInv /\ [Next]_vars => CleanInv'
<1>. SUFFICES ASSUME CleanInv, [Next]_vars PROVE Clean'
  BY RolloutStep DEF CleanInv
<1>1. CASE ~flawless'
  BY <1>1 DEF Clean
<1>2. ASSUME flawless' PROVE Clean'
  <2>1. CASE CleanupCanary \/ Restore
    BY <1>2, <2>1, NoFailure DEF CleanInv, Clean, CleanupCanary, RemoveContainers, Restore, Succeeds
  <2>2. CASE ContainerExits \/ Shutdown
    BY <1>2, <2>2 DEF ContainerExits, Shutdown, Fault
  <2>3. CASE Restart
    BY <1>2, <2>3 DEF CleanInv, Clean, Restart, ghosts
  <2>4. CASE UNCHANGED vars
    <3>1. \A s : Of(s)' = Of(s)
      BY <2>4 DEF Of, vars
    <3>2. \A s : /\ Running(s)' = Running(s) /\ BeforeOf(s)' = BeforeOf(s)
                 /\ (OneNew(s)' <=> OneNew(s)) /\ (Beside(s)' <=> Beside(s))
      BY <2>4, <3>1, SameOf DEF vars, deployVars, ghosts
    <3>3. UntouchedOK' /\ CurOK' /\ DoneOK'
      BY <1>2, <2>4, <3>2 DEF CleanInv, Clean, UntouchedOK, CurOK, DoneOK, Cur, vars, deployVars, ghosts
    <3>4. NoCanaryLeft'
      BY <1>2, <2>4, <3>1 DEF CleanInv, Clean, NoCanaryLeft, IdsOf, vars, deployVars, ghosts
    <3>. QED BY <1>2, <2>4, <3>3, <3>4 DEF CleanInv, Clean, vars, deployVars, ghosts
  <2>. QED BY <1>2, <2>1, <2>2, <2>3, <2>4, DeployClean, UpRestClean, ListOldClean, FirstUpClean,
              StartCanaryClean, PollClean, GiveUpCanaryClean, DrainOldClean, VerifyClean,
              HealthClean DEF Next
<1>. QED BY <1>1, <1>2

\* It holds at the start.
LEMMA CleanInit == Init => CleanInv
<1>. SUFFICES ASSUME Init PROVE Clean
  BY RolloutInit DEF CleanInv
<1>. QED BY DEF Init, Clean, UntouchedOK, CurOK, DoneOK, NoCanaryLeft, Rolling

\* A canary that never turned healthy, in a deploy without faults, leaves nothing behind:
\* its service and those not reached yet run what they ran before the deploy, container
\* by container (waitCanaryHealthy and cleanupCanary of rollout.go).
THEOREM GivenUpCanaryIsGone == Spec => []NoCanaryLeft
<1>1. CleanInv => NoCanaryLeft
  BY DEF CleanInv, Clean, NoCanaryLeft
<1>. QED BY <1>1, CleanInit, CleanStep, PTL DEF Spec

\* Whatever earlier deploys left running, after one that succeeds without a fault every
\* service runs one container, of the new version.
THEOREM SuccessClearsLeftovers == Spec => []LeftoversGone
<1>1. ASSUME CleanInv PROVE LeftoversGone
  <2>1. \A s : OneNew(s) => Cardinality(Of(s)) = 1 /\ \A c \in Of(s) : c.version = version
    BY FS_Singleton DEF OneNew
  <2>. QED BY <1>1, <2>1 DEF CleanInv, Clean, DoneOK, LeftoversGone
<1>. QED BY <1>1, CleanInit, CleanStep, PTL DEF Spec

=============================================================================
