----------------------- MODULE FixtureWorkers_proofs -----------------------
(* Proofs about FixtureWorkers, for any fixtures, threads, slots and number of  *)
(* faults.                                                                     *)
EXTENDS FixtureWorkers, TLAPS

-----------------------------------------------------------------------------
(* The invariant.                                                              *)

Busy(w) == task[w].at # "idle"
OwnsChild(w) == task[w].at \in {"spawned", "waiting", "reaping"}

\* What a child's process and its CLI have behind them.
Sound(c) ==
    /\ c.at \in {"none", "working"} => ~ c.cli
    /\ c.at = "unwinding" /\ c.cli => c.missed
    /\ c.at = "gone" /\ c.cli => c.missed \/ c.ended = "crash"
    /\ c.ended = "ok" => c.at = "gone" /\ ~ c.cli

ChildSound == \A f \in Fixture : Sound(child[f])

\* A fixture is in the queue, or with one thread, or through; a child that runs is
\* with a thread.
Owned ==
    /\ \A w \in Worker : ~ Busy(w) => task[w] = Idle
    /\ \A w \in Worker : Busy(w) => task[w].fixture \in Fixture /\ future[task[w].fixture] = "running"
    /\ \A v, w \in Worker : Busy(v) /\ Busy(w) /\ task[v].fixture = task[w].fixture => v = w
    /\ \A j, k \in DOMAIN queue : queue[j] = queue[k] => j = k
    /\ \A k \in DOMAIN queue : future[queue[k]] = "pending"
    /\ \A f \in Fixture : future[f] = "pending" => child[f].at = "none"
    /\ \A w \in Worker : task[w].at \in {"checked", "slot"} => child[task[w].fixture].at = "none"
    /\ \A w \in Worker : OwnsChild(w) => child[task[w].fixture].at # "none"
    /\ \A w \in Worker : task[w].at \in {"waiting", "reaping"} => task[w].fixture \in children
    /\ \A f \in Alive : \E w \in Worker : OwnsChild(w) /\ task[w].fixture = f

\* What has run is with a thread, on record or lost, and "ok" is the end of a child.
Recorded ==
    \A f \in Fixture :
        /\ child[f].at # "none" \/ future[f] = "raised" =>
               outcomes[f] # None \/ f \in lost \/ \E w \in Worker : Busy(w) /\ task[w].fixture = f
        /\ outcomes[f] # None /\ outcomes[f].status = "ok" => child[f].ended = "ok"

\* How far the main thread is. Until a stop ends, what runs is still to be stopped or
\* was starting; and nothing starts, for `cancel` is set or there is nothing to start.
Course ==
    /\ main.at \in {"shutdown", "snapshot", "stop"} => cancel
    /\ main.at = "await" => \A k \in 1 .. Len(Order) : k < main.next => future[Order[k]] = "done"
    /\ main.at = "join" /\ ~ signalled => cancel \/ Quiescent
    /\ main.at \in {"last", "laststop", "seal", "sealed"} => Quiescent \/ (main.late /\ cancel)
    /\ main.at \in {"stop", "laststop"} => ~ main.stopped
    /\ main.at \in {"stop", "laststop"} \/ main.stopped =>
           /\ Starting \subseteq main.starting
           /\ Alive \subseteq main.todo \union main.starting
           /\ cancel \/ Quiescent
    /\ main.stopped => main.todo = {}
    /\ main.now # None => main.at \in {"stop", "laststop"} /\ main.now \in main.todo

Sealed ==
    /\ evidence # None => main.at = "sealed"
    /\ evidence # None /\ ~ main.late => evidence.outcomes = outcomes
    /\ evidence # None /\ evidence.complete =>
           \A f \in Fixture : child[f].ended = "ok" /\ evidence.outcomes[f] # None

Inv == TypeOK /\ ChildSound /\ Owned /\ Recorded /\ Course /\ Sealed

USE DEF TaskAt, ChildAt, MainAt

-----------------------------------------------------------------------------
(* Children.                                                                   *)

\* A step of a child other than its start: the unborn stay unborn and the dead as
\* they are.
Follows(c, d) ==
    /\ d \in ChildState /\ Sound(d)
    /\ d.at = "none" <=> c.at = "none"
    /\ c.at = "gone" => d = c

GoesOn ==
    /\ child' \in [Fixture -> ChildState]
    /\ \A f \in Fixture : Follows(child[f], child'[f])

LEMMA OneGoesOn ==
    ASSUME TypeOK, ChildSound, NEW f \in Fixture, NEW d,
           child' = [child EXCEPT ![f] = d], Follows(child[f], d)
    PROVE  GoesOn
<1>1. d \in ChildState
  BY DEF Follows
<1>2. child' \in [Fixture -> ChildState]
  BY <1>1 DEF TypeOK
<1>3. ASSUME NEW g \in Fixture PROVE Follows(child[g], child'[g])
  <2>1. CASE g = f
    BY <2>1 DEF TypeOK
  <2>2. CASE g # f
    <3>1. child'[g] = child[g] /\ child[g] \in ChildState /\ Sound(child[g])
      BY <2>2 DEF TypeOK, ChildSound
    <3> QED BY <3>1 DEF Follows
  <2> QED BY <2>1, <2>2
<1> QED BY <1>2, <1>3 DEF GoesOn

LEMMA BecomeGoesOn ==
    ASSUME TypeOK, ChildSound, NEW f \in Fixture, NEW at \in ChildAt, NEW cli \in BOOLEAN, Become(f, at, cli),
           child[f].at \notin {"none", "gone"}, at \notin {"none", "gone"},
           at = "working" => ~ cli, at = "unwinding" => ~ cli
    PROVE  GoesOn
<1> DEFINE d == [child[f] EXCEPT !.at = at, !.cli = cli]
<1>1. child[f] \in ChildState /\ Sound(child[f])
  BY DEF TypeOK, ChildSound
<1>2. child' = [child EXCEPT ![f] = d]
  BY DEF Become, TypeOK
<1>3. d \in ChildState /\ d.at = at /\ d.cli = cli /\ d.ended = child[f].ended
  BY <1>1 DEF ChildState
<1>4. Follows(child[f], d)
  BY <1>1, <1>3 DEF Follows, Sound
<1> HIDE DEF d
<1> QED BY <1>2, <1>4, OneGoesOn

LEMMA EndGoesOn ==
    ASSUME TypeOK, ChildSound, NEW f \in Fixture,
           NEW how \in {"ok", "failed", "terminated", "killed", "crash"}, End(f, how),
           child[f].at \notin {"none", "gone"},
           child[f].at \in {"working", "unwinding"} \/ how = "crash",
           how = "ok" => child[f].at = "working"
    PROVE  GoesOn
<1> DEFINE d == [child[f] EXCEPT !.at = "gone", !.ended = how]
<1>1. child[f] \in ChildState /\ Sound(child[f])
  BY DEF TypeOK, ChildSound
<1>2. child' = [child EXCEPT ![f] = d]
  BY DEF End, TypeOK
<1>3. d \in ChildState /\ d.at = "gone" /\ d.ended = how /\ d.cli = child[f].cli /\ d.missed = child[f].missed
  BY <1>1 DEF ChildState
<1>4. Follows(child[f], d)
  BY <1>1, <1>3 DEF Follows, Sound
<1> HIDE DEF d
<1> QED BY <1>2, <1>4, OneGoesOn

LEMMA ChildGoesOn ==
    ASSUME TypeOK, ChildSound, NEW f \in Fixture, Child(f)
    PROVE  GoesOn
<1>1. CASE ForkCli(f) \/ HoldCli(f) \/ CliEnds(f) \/ CliTimesOut(f) \/ CliStopped(f) \/ CleanUp(f)
  BY <1>1, BecomeGoesOn DEF ForkCli, HoldCli, CliEnds, CliTimesOut, CliStopped, CleanUp
<1>2. CASE Exit(f)
  BY <1>2, EndGoesOn DEF Exit
<1> QED BY <1>1, <1>2 DEF Child

LEMMA CrashGoesOn ==
    ASSUME TypeOK, ChildSound, NEW f \in Fixture, Crash(f)
    PROVE  GoesOn
BY EndGoesOn DEF Crash, Alive

\* The parent's grace is what keeps a child from being killed with its CLI in hand.
LEMMA KillGoesOn ==
    ASSUME TypeOK, ChildSound, GraceCovers, NEW f \in Fixture, Kill(f)
    PROVE  GoesOn
BY EndGoesOn DEF Kill

LEMMA TermGoesOn ==
    ASSUME TypeOK, ChildSound, NEW f \in Fixture, SendTerm(f)
    PROVE  GoesOn
<1>0. PICK c : c = child[f]
  OBVIOUS
<1>1. c \in ChildState /\ Sound(c)
  BY <1>0 DEF TypeOK, ChildSound
<1>9. PICK d : d = Signalled(c)
  OBVIOUS
<1>2. child' = [child EXCEPT ![f] = d]
  BY <1>0, <1>9 DEF SendTerm
<1>3. ASSUME c.at = "reviewing" PROVE Follows(c, d)
  <2>1. d = [c EXCEPT !.at = "cleanup"]
    BY <1>3, <1>9 DEF Signalled
  <2>2. d \in ChildState /\ d.at = "cleanup" /\ d.ended = c.ended
    BY <1>1, <2>1 DEF ChildState
  <2> QED BY <1>1, <1>3, <2>2 DEF Follows, Sound
<1>4. ASSUME c.at \in {"working", "forked", "ending"} PROVE Follows(c, d)
  <2>1. d = [c EXCEPT !.at = "unwinding", !.missed = c.cli]
    BY <1>4, <1>9 DEF Signalled
  <2>2. d \in ChildState /\ d.at = "unwinding" /\ d.missed = c.cli /\ d.cli = c.cli /\ d.ended = c.ended
    BY <1>1, <2>1 DEF ChildState
  <2> QED BY <1>1, <1>4, <2>2 DEF Follows, Sound
<1>5. ASSUME c.at \notin {"reviewing", "working", "forked", "ending"} PROVE Follows(c, d)
  <2>1. d = c
    BY <1>5, <1>9 DEF Signalled
  <2> QED BY <1>1, <2>1 DEF Follows
<1>6. Follows(c, d)
  BY <1>3, <1>4, <1>5
<1> QED BY <1>0, <1>2, <1>6, OneGoesOn

\* What of a child's steps the rest of the invariant depends on.
LEMMA GoesOnMeans ==
    ASSUME TypeOK, ChildSound, GoesOn
    PROVE  /\ ChildSound'
           /\ \A f \in Fixture : child[f].at = "none" <=> child'[f].at = "none"
           /\ \A f \in Fixture : child[f].ended = "ok" => child'[f].ended = "ok"
           /\ \A f \in Fixture : Gone(f) => child'[f] = child[f]
           /\ Alive' \subseteq Alive
<1>1. \A f \in Fixture : Follows(child[f], child'[f])
  BY DEF GoesOn
<1>2. ChildSound'
  BY <1>1 DEF ChildSound, Follows
<1>3. \A f \in Fixture : child[f].at = "none" <=> child'[f].at = "none"
  BY <1>1 DEF Follows
<1>4. \A f \in Fixture : Gone(f) => child'[f] = child[f]
  BY <1>1 DEF Follows, Gone
<1>5. \A f \in Fixture : child[f].ended = "ok" => child'[f].ended = "ok"
  BY <1>4 DEF ChildSound, Sound, Gone
<1>6. Alive' \subseteq Alive
  BY <1>3, <1>4 DEF Alive, Gone
<1> QED BY <1>2, <1>3, <1>4, <1>5, <1>6

\* Nothing else that the invariant speaks of moves with a child.
LEMMA ChildrenKeepOwners ==
    ASSUME TypeOK, Owned, Recorded, ChildSound, GoesOn, UNCHANGED <<pool, task, children, outcomes, lost>>
    PROVE  /\ Owned' /\ Recorded'
           /\ Starting' = Starting /\ (Quiescent' <=> Quiescent)
<1>1. /\ \A f \in Fixture : child[f].at = "none" <=> child'[f].at = "none"
      /\ \A f \in Fixture : child[f].ended = "ok" => child'[f].ended = "ok"
      /\ Alive' \subseteq Alive
  BY GoesOnMeans
<1>2. Owned'
  BY <1>1 DEF Owned, pool, Busy, OwnsChild, TypeOK
<1>3. Recorded'
  BY <1>1 DEF Recorded, pool, Busy
<1>4. Starting' = Starting /\ (Quiescent' <=> Quiescent)
  BY DEF Starting, Quiescent, pool
<1> QED BY <1>1, <1>2, <1>3, <1>4

LEMMA ChildStepKeeps ==
    ASSUME Inv, GoesOn, faults' \in 0 .. MaxFaults,
           UNCHANGED <<pool, task, children, cancel, main, outcomes, lost, evidence, signalled>>
    PROVE  Inv'
<1>1. TypeOK'
  BY DEF Inv, TypeOK, GoesOn, pool
<1>2. /\ Owned' /\ Recorded' /\ ChildSound'
      /\ Alive' \subseteq Alive /\ Starting' = Starting /\ (Quiescent' <=> Quiescent)
      /\ \A f \in Fixture : child[f].ended = "ok" => child'[f].ended = "ok"
  BY ChildrenKeepOwners, GoesOnMeans DEF Inv
<1>3. Course'
  BY <1>2 DEF Inv, Course, pool
<1>4. Sealed'
  BY <1>2 DEF Inv, Sealed
<1> QED BY <1>1, <1>2, <1>3, <1>4 DEF Inv
-----------------------------------------------------------------------------
(* Threads.                                                                    *)

\* What the main thread relies on of the others.
Abides ==
    /\ ~ Quiescent
    /\ cancel => cancel' /\ Starting' \subseteq Starting /\ Alive' \subseteq Alive \union Starting
    /\ \A f \in Fixture : future[f] = "done" => future'[f] = "done"
    /\ \A f \in Fixture : child[f].ended = "ok" => child'[f].ended = "ok"
    /\ UNCHANGED <<main, evidence, signalled>>

LEMMA AbidingKeeps ==
    ASSUME Inv, Abides
    PROVE  Course' /\ Sealed'
<1> USE DEF Abides, Inv
<1>1. Course'
  <2>1. main.at = "await" => \A k \in 1 .. Len(Order) : k < main.next => future'[Order[k]] = "done"
    <3>1. \A k \in 1 .. Len(Order) : Order[k] \in Fixture
      BY WorkersAssumption
    <3> QED BY <3>1 DEF Course
  <2>2. main.at = "join" /\ ~ signalled => cancel'
    BY DEF Course
  <2>3. main.at \in {"last", "laststop", "seal", "sealed"} => main.late /\ cancel'
    BY DEF Course
  <2>4. main.at \in {"stop", "laststop"} \/ main.stopped =>
           /\ Starting' \subseteq main.starting
           /\ Alive' \subseteq main.todo \union main.starting
           /\ cancel'
    BY DEF Course
  <2> QED BY <2>1, <2>2, <2>3, <2>4 DEF Course
<1>2. Sealed'
  <2>1. evidence # None => main.late
    BY DEF Course, Sealed
  <2> QED BY <2>1 DEF Sealed
<1> QED BY <1>1, <1>2

\* A step of the thread that has `f`.
LEMMA HeadOfQueue ==
    ASSUME TypeOK, queue # <<>>
    PROVE  /\ Head(queue) = queue[1] /\ 1 \in DOMAIN queue /\ Head(queue) \in Fixture
           /\ Tail(queue) \in Seq(Fixture)
           /\ \A k \in DOMAIN Tail(queue) : k + 1 \in DOMAIN queue /\ Tail(queue)[k] = queue[k + 1] /\ k \in Nat \ {0}
BY DEF TypeOK

LEMMA TakeKeeps ==
    ASSUME Inv, NEW w \in Worker, Take(w)
    PROVE  Inv'
<1> DEFINE f == Head(queue)
<1> USE DEF Inv
<1>1. /\ f = queue[1] /\ 1 \in DOMAIN queue /\ f \in Fixture
      /\ Tail(queue) \in Seq(Fixture)
      /\ \A k \in DOMAIN Tail(queue) : k + 1 \in DOMAIN queue /\ Tail(queue)[k] = queue[k + 1] /\ k \in Nat \ {0}
  BY HeadOfQueue DEF Take
<1> HIDE DEF f
<1>2. /\ task[w] = Idle /\ queue # <<>> /\ queue' = Tail(queue)
      /\ UNCHANGED <<slots, child, children, cancel, main, outcomes, lost, evidence, signalled, faults>>
  BY DEF Take
<1>3. /\ \A k \in DOMAIN queue' : queue'[k] # f
      /\ \A j, k \in DOMAIN queue' : queue'[j] = queue'[k] => j = k
  BY <1>1, <1>2 DEF Owned
<1>4. future[f] = "pending" /\ child[f].at = "none" /\ \A v \in Worker : Busy(v) => task[v].fixture # f
  BY <1>1 DEF Owned
<1>5. /\ \A g \in Fixture : future[g] = "done" => future'[g] = "done"
      /\ \A g \in Fixture : g # f => future'[g] = future[g]
      /\ future' \in [Fixture -> {"pending", "running", "done", "raised", "cancelled"}]
  BY <1>1, <1>4 DEF Take, TypeOK, f
<1>6. CASE cancel
  <2>1. future'[f] = "done" /\ task' = task
    BY <1>1, <1>6 DEF Take, TypeOK, f
  <2>2. TypeOK'
    BY <1>1, <1>2, <1>5, <2>1 DEF TypeOK
  <2>3. ChildSound'
    BY <1>2 DEF ChildSound
  <2>4. Owned'
    BY <1>1, <1>2, <1>3, <1>4, <1>5, <2>1 DEF Owned, Busy, OwnsChild, Alive
  <2>5. Recorded'
    BY <1>1, <1>2, <1>4, <1>5, <2>1 DEF Recorded, Busy
  <2>6. Abides
    BY <1>2, <1>5, <2>1 DEF Abides, Quiescent, Starting, Alive
  <2> QED BY <2>2, <2>3, <2>4, <2>5, <2>6, AbidingKeeps
<1>7. CASE ~ cancel
  <2>1. /\ future'[f] = "running"
        /\ task'[w] = [Idle EXCEPT !.at = "checked", !.fixture = f]
        /\ \A v \in Worker : v # w => task'[v] = task[v]
    BY <1>1, <1>7 DEF Take, TypeOK, f
  <2>0. task'[w].at = "checked" /\ task'[w].fixture = f
    BY <2>1 DEF Idle
  <2>2. TypeOK'
    <3>1. task' \in [Worker -> TaskState]
      <4>1. [Idle EXCEPT !.at = "checked", !.fixture = f]
                \in TaskState
        BY <1>1 DEF Idle, TaskState
      <4>2. task' = [task EXCEPT ![w] = [Idle EXCEPT !.at = "checked", !.fixture = f]]
        BY <1>7 DEF Take, f
      <4> QED BY <4>1, <4>2 DEF TypeOK
    <3>2. \A v \in Worker : task'[v].at \in {"idle", "checked"} \/ task'[v].slot \in Slot
      BY <2>0, <2>1 DEF TypeOK
    <3> QED BY <1>1, <1>2, <1>5, <3>1, <3>2 DEF TypeOK
  <2>3. ChildSound'
    BY <1>2 DEF ChildSound
  <2>4. Owned'
    <3>1. \A v \in Worker : v # w => task'[v] = task[v] /\ (Busy(v)' <=> Busy(v)) /\ (OwnsChild(v)' <=> OwnsChild(v))
      BY <2>1 DEF Busy, OwnsChild
    <3>2. ~ Busy(w) /\ ~ OwnsChild(w)
      BY <1>2 DEF Busy, OwnsChild, Idle
    <3>3. Busy(w)' /\ ~ OwnsChild(w)'
      BY <2>0 DEF Busy, OwnsChild
    <3>4. \A v \in Worker : ~ Busy(v)' => task'[v] = Idle
      BY <3>1, <3>3 DEF Owned
    <3>5. \A v \in Worker : Busy(v)' => task'[v].fixture \in Fixture /\ future'[task'[v].fixture] = "running"
      <4>1. \A v \in Worker : Busy(v) => task[v].fixture \in Fixture /\ future[task[v].fixture] = "running"
        BY DEF Owned
      <4>2. ASSUME NEW v \in Worker, v # w, Busy(v)'
            PROVE  task'[v].fixture \in Fixture /\ future'[task'[v].fixture] = "running"
        BY <1>4, <1>5, <3>1, <4>1, <4>2
      <4> QED BY <1>1, <2>0, <2>1, <4>2
    <3>6. \A u, v \in Worker : Busy(u)' /\ Busy(v)' /\ task'[u].fixture = task'[v].fixture => u = v
      BY <1>4, <2>0, <3>1 DEF Owned
    <3>7. \A k \in DOMAIN queue' : future'[queue'[k]] = "pending"
      BY <1>1, <1>2, <1>3, <1>5 DEF Owned, TypeOK
    <3>8. \A g \in Fixture : future'[g] = "pending" => child'[g].at = "none"
      BY <1>2, <1>5, <2>1 DEF Owned
    <3>9. /\ \A v \in Worker : task'[v].at \in {"checked", "slot"} => child'[task'[v].fixture].at = "none"
          /\ \A v \in Worker : OwnsChild(v)' => child'[task'[v].fixture].at # "none"
          /\ \A v \in Worker : task'[v].at \in {"waiting", "reaping"} => task'[v].fixture \in children'
      BY <1>2, <1>4, <2>0, <3>1, <3>3 DEF Owned
    <3>10. \A g \in Alive' : \E v \in Worker : OwnsChild(v)' /\ task'[v].fixture = g
      BY <1>2, <3>1, <3>2 DEF Owned, Alive
    <3> QED BY <1>3, <3>4, <3>5, <3>6, <3>7, <3>8, <3>9, <3>10 DEF Owned
  <2>5. Recorded'
    <3>2. ~ Busy(w)
      BY <1>2 DEF Busy, Idle
    <3> QED BY <1>1, <1>2, <1>4, <1>5, <2>1, <3>2 DEF Recorded, Busy
  <2>6. Abides
    BY <1>2, <1>5, <1>7, <2>1 DEF Abides, Quiescent
  <2> QED BY <2>2, <2>3, <2>4, <2>5, <2>6, AbidingKeeps
<1> QED BY <1>6, <1>7

\* What a step with the fixture in hand of one thread has to show, when the queue
\* is left alone and no fixture gets a new owner.
LEMMA OwnStepKeeps ==
    ASSUME Inv, NEW w \in Worker, Busy(w), NEW f \in Fixture, f = task[w].fixture,
           TypeOK', ChildSound', main' = main, evidence' = evidence, signalled' = signalled, queue' = queue,
           \A v \in Worker : v # w => task'[v] = task[v],
           task'[w] = Idle \/ (Busy(w)' /\ task'[w].fixture = f),
           \A g \in Fixture : g # f => /\ future'[g] = future[g] /\ outcomes'[g] = outcomes[g]
                                       /\ (child'[g].at = "none" <=> child[g].at = "none")
                                       /\ (g \in children' <=> g \in children)
                                       /\ (Gone(g) => Gone(g)'),
           \A g \in Fixture : child[g].ended = "ok" => child'[g].ended = "ok",
           cancel => cancel', lost \subseteq lost',
           IF Busy(w)'
           THEN /\ future'[f] = "running" /\ outcomes' = outcomes
                /\ task'[w].at \in {"checked", "slot"} => child'[f].at = "none"
                /\ OwnsChild(w)' => child'[f].at # "none"
                /\ task'[w].at \in {"waiting", "reaping"} => f \in children'
           ELSE /\ future'[f] \in {"done", "raised"} /\ f \notin Alive' /\ (outcomes'[f] # None \/ f \in lost')
                /\ outcomes'[f] # None /\ outcomes'[f].status = "ok" => child'[f].ended = "ok",
           task'[w].at \in {"checked", "slot", "spawned"} => task[w].at \in {"checked", "slot", "spawned"},
           f \in Alive' => f \in Alive \union Starting,
           ~ OwnsChild(w)' => f \notin Alive'
    PROVE  Inv'
<1> USE DEF Inv
<1>1. future[f] = "running" /\ \A v \in Worker : Busy(v) /\ v # w => task[v].fixture # f
  BY DEF Owned
<1>2. \A v \in Worker : v # w => (Busy(v)' <=> Busy(v)) /\ (OwnsChild(v)' <=> OwnsChild(v))
  BY DEF Busy, OwnsChild
<1>3. Busy(w)' => task'[w].fixture = f
  BY DEF Busy, Idle
<1>4. ~ Busy(w)' => task'[w] = Idle /\ ~ OwnsChild(w)'
  BY DEF Busy, OwnsChild
<1>5. \A k \in DOMAIN queue : queue[k] \in Fixture /\ queue[k] # f
  BY <1>1 DEF Owned, TypeOK
<1>6. \A v \in Worker : (OwnsChild(v) => Busy(v)) /\ (OwnsChild(v)' => Busy(v)')
  BY DEF Busy, OwnsChild
<1>7. \A g \in Alive' : g \in Fixture /\ (g # f => g \in Alive)
  BY DEF Alive, Gone
<1>8. Owned'
  <2>1. \A v \in Worker : ~ Busy(v)' => task'[v] = Idle
    BY <1>2, <1>4 DEF Owned
  <2>2. \A v \in Worker : Busy(v)' => task'[v].fixture \in Fixture /\ future'[task'[v].fixture] = "running"
    <3>1. \A v \in Worker : Busy(v) => task[v].fixture \in Fixture /\ future[task[v].fixture] = "running"
      BY DEF Owned
    <3>2. ASSUME NEW v \in Worker, v # w, Busy(v)'
          PROVE  task'[v].fixture \in Fixture /\ future'[task'[v].fixture] = "running"
      BY <1>1, <1>2, <3>1, <3>2
    <3> QED BY <1>3, <3>2
  <2>3. \A u, v \in Worker : Busy(u)' /\ Busy(v)' /\ task'[u].fixture = task'[v].fixture => u = v
    BY <1>1, <1>2, <1>3 DEF Owned
  <2>4. /\ \A j, k \in DOMAIN queue' : queue'[j] = queue'[k] => j = k
        /\ \A k \in DOMAIN queue' : future'[queue'[k]] = "pending"
    BY <1>5 DEF Owned
  <2>5. \A g \in Fixture : future'[g] = "pending" => child'[g].at = "none"
    BY DEF Owned
  <2>6. \A v \in Worker : task'[v].at \in {"checked", "slot"} => Busy(v)'
    BY DEF Busy
  <2>7. /\ \A v \in Worker : task'[v].at \in {"checked", "slot"} => child'[task'[v].fixture].at = "none"
        /\ \A v \in Worker : OwnsChild(v)' => child'[task'[v].fixture].at # "none"
    <3>1. ASSUME NEW v \in Worker, v # w, Busy(v)'
          PROVE  /\ task'[v].at \in {"checked", "slot"} => child'[task'[v].fixture].at = "none"
                 /\ OwnsChild(v)' => child'[task'[v].fixture].at # "none"
      BY <1>1, <1>2, <2>2, <3>1 DEF Owned
    <3> QED BY <1>3, <1>6, <2>6, <3>1
  <2>8. \A v \in Worker : task'[v].at \in {"waiting", "reaping"} => task'[v].fixture \in children'
    <3>1. \A v \in Worker : task'[v].at \in {"waiting", "reaping"} => Busy(v)'
      BY DEF Busy
    <3>2. ASSUME NEW v \in Worker, v # w, Busy(v)'
          PROVE  task'[v].at \in {"waiting", "reaping"} => task'[v].fixture \in children'
      BY <1>1, <1>2, <2>2, <3>2 DEF Owned
    <3> QED BY <1>3, <3>1, <3>2
  <2>9. ASSUME NEW g \in Alive'
        PROVE  \E v \in Worker : OwnsChild(v)' /\ task'[v].fixture = g
    <3>1. CASE g = f
      BY <1>3, <1>6, <3>1
    <3>2. CASE g # f
      <4>1. PICK v \in Worker : OwnsChild(v) /\ task[v].fixture = g
        BY <1>7, <3>2 DEF Owned
      <4> QED BY <1>2, <3>2, <4>1
    <3> QED BY <3>1, <3>2
  <2> QED BY <2>1, <2>2, <2>3, <2>4, <2>5, <2>7, <2>8, <2>9 DEF Owned
<1>9. Recorded'
  <2>1. ASSUME NEW g \in Fixture, g # f
        PROVE  /\ child'[g].at # "none" \/ future'[g] = "raised" =>
                     outcomes'[g] # None \/ g \in lost' \/ \E v \in Worker : Busy(v)' /\ task'[v].fixture = g
               /\ outcomes'[g] # None /\ outcomes'[g].status = "ok" => child'[g].ended = "ok"
    <3>1. (\E v \in Worker : Busy(v) /\ task[v].fixture = g) => \E v \in Worker : Busy(v)' /\ task'[v].fixture = g
      BY <1>2, <2>1
    <3> QED BY <2>1, <3>1 DEF Recorded
  <2>2. /\ child'[f].at # "none" \/ future'[f] = "raised" =>
               outcomes'[f] # None \/ f \in lost' \/ \E v \in Worker : Busy(v)' /\ task'[v].fixture = f
        /\ outcomes'[f] # None /\ outcomes'[f].status = "ok" => child'[f].ended = "ok"
    BY <1>3 DEF Recorded
  <2> QED BY <2>1, <2>2 DEF Recorded
<1>10. Abides
  <2>1. ~ Quiescent
    BY DEF Quiescent, Busy, Idle
  <2>2. Starting' \subseteq Starting
    BY <1>3 DEF Starting, Busy
  <2>3. Alive' \subseteq Alive \union Starting
    BY <1>7
  <2>4. \A g \in Fixture : future[g] = "done" => future'[g] = "done"
    BY <1>1
  <2> QED BY <2>1, <2>2, <2>3, <2>4 DEF Abides
<1> QED BY <1>8, <1>9, <1>10, AbidingKeeps

\* The thread goes on with its fixture: what is left to show of its child.
LEMMA TaskStepKeeps ==
    ASSUME Inv, NEW w \in Worker, Busy(w), NEW t \in TaskState, t.at # "idle", t.fixture = task[w].fixture,
           t.at = "checked" \/ t.slot \in Slot,
           task' = [task EXCEPT ![w] = t],
           UNCHANGED <<queue, future, cancel, main, outcomes, lost, evidence, signalled>>,
           slots' \subseteq Slot, children' \subseteq Fixture, faults' \in 0 .. MaxFaults,
           GoesOn,
           \A g \in Fixture : g # t.fixture => (g \in children' <=> g \in children),
           t.at \in {"checked", "slot"} => task[w].at \in {"checked", "slot"},
           t.at = "spawned" => task[w].at = "spawned",
           t.at \in {"waiting", "reaping"} => OwnsChild(w) /\ t.fixture \in children',
           t.at = "record" => ~ OwnsChild(w) \/ Gone(t.fixture)
    PROVE  Inv'
<1> DEFINE f == task[w].fixture
<1> USE DEF Inv
<1>1. f \in Fixture /\ future[f] = "running"
  BY DEF Owned
<1>2. task'[w] = t /\ \A v \in Worker : v # w => task'[v] = task[v]
  BY DEF TypeOK
<1>3. /\ ChildSound'
      /\ \A g \in Fixture : child[g].at = "none" <=> child'[g].at = "none"
      /\ \A g \in Fixture : child[g].ended = "ok" => child'[g].ended = "ok"
      /\ \A g \in Fixture : Gone(g) => child'[g] = child[g]
      /\ Alive' \subseteq Alive
  BY GoesOnMeans
<1>4. TypeOK'
  <2>1. task' \in [Worker -> TaskState]
    BY DEF TypeOK
  <2>2. \A v \in Worker : task'[v].at \in {"idle", "checked"} \/ task'[v].slot \in Slot
    BY <1>2 DEF TypeOK
  <2> QED BY <2>1, <2>2 DEF TypeOK, GoesOn
<1> HIDE DEF f
<1>5. Busy(w)' /\ task'[w].fixture = f
  BY <1>2 DEF Busy, f
<1>6. /\ task[w].at \in {"checked", "slot"} => child[f].at = "none"
      /\ OwnsChild(w) => child[f].at # "none"
      /\ f \in Alive => OwnsChild(w)
  <2>1. ASSUME f \in Alive PROVE OwnsChild(w)
    <3>1. PICK v \in Worker : OwnsChild(v) /\ task[v].fixture = f
      BY <2>1 DEF Owned
    <3>2. v = w
      BY <3>1 DEF Owned, Busy, OwnsChild, f
    <3> QED BY <3>1, <3>2
  <2> QED BY <2>1 DEF Owned, f
<1>7. /\ t.at \in {"checked", "slot"} => child'[f].at = "none"
      /\ OwnsChild(w)' => child'[f].at # "none"
      /\ t.at \in {"waiting", "reaping"} => f \in children'
      /\ ~ OwnsChild(w)' => f \notin Alive'
  <2>1. OwnsChild(w)' => OwnsChild(w)
    BY <1>2 DEF OwnsChild
  <2>2. ~ OwnsChild(w)' => t.at \in {"checked", "slot", "record"}
    BY <1>2 DEF OwnsChild, TaskState
  <2>3. ~ OwnsChild(w)' => f \notin Alive'
    BY <1>3, <1>6, <2>2 DEF OwnsChild, Alive, Gone, f
  <2> QED BY <1>1, <1>3, <1>6, <2>1, <2>3 DEF f
<1>8. \A g \in Fixture : Gone(g) => Gone(g)'
  BY <1>3 DEF Gone
<1>9. t.at \in {"checked", "slot", "spawned"} => task[w].at \in {"checked", "slot", "spawned"}
  OBVIOUS
<1> QED BY <1>1, <1>2, <1>3, <1>4, <1>5, <1>7, <1>8, <1>9, OwnStepKeeps DEF f

LEMMA SameChildren ==
    ASSUME TypeOK, ChildSound, UNCHANGED child
    PROVE  GoesOn
BY DEF TypeOK, ChildSound, GoesOn, Follows

LEMMA TaskFacts ==
    ASSUME Inv, NEW w \in Worker
    PROVE  /\ task[w] \in TaskState /\ (Busy(w) => task[w].fixture \in Fixture)
           /\ Busy(w) => task[w].at = "checked" \/ task[w].slot \in Slot
BY DEF Inv, TypeOK, Owned, Busy

LEMMA GetSlotKeeps ==
    ASSUME Inv, NEW w \in Worker, GetSlot(w)
    PROVE  Inv'
<1>1. PICK s \in slots : /\ slots' = slots \ {s}
                         /\ task' = [task EXCEPT ![w].at = "slot", ![w].slot = s]
  BY DEF GetSlot
<1> DEFINE t == [task[w] EXCEPT !.at = "slot", !.slot = s]
<1>2. task[w].at = "checked" /\ Busy(w) /\ task[w] \in TaskState
  BY TaskFacts DEF GetSlot, Busy
<1>3. t \in TaskState /\ t.at = "slot" /\ t.slot \in Slot /\ t.fixture = task[w].fixture
  BY <1>1, <1>2 DEF TaskState, Inv, TypeOK
<1>4. task' = [task EXCEPT ![w] = t]
  BY <1>1 DEF Inv, TypeOK
<1>5. GoesOn
  BY SameChildren DEF GetSlot, Inv
<1>6. slots' \subseteq Slot /\ children' \subseteq Fixture /\ faults' \in 0 .. MaxFaults
  BY <1>1 DEF GetSlot, Inv, TypeOK
<1> HIDE DEF t
<1> QED BY <1>2, <1>3, <1>4, <1>5, <1>6, TaskStepKeeps DEF GetSlot

LEMMA StartFailsKeeps ==
    ASSUME Inv, NEW w \in Worker, StartFails(w)
    PROVE  Inv'
<1> DEFINE t == [task[w] EXCEPT !.at = "record", !.raises = TRUE]
<1>2. task[w].at = "slot" /\ task[w].slot \in Slot /\ Busy(w) /\ ~ OwnsChild(w) /\ task[w] \in TaskState
  BY TaskFacts DEF StartFails, Busy, OwnsChild
<1>3. t \in TaskState /\ t.at = "record" /\ t.slot \in Slot /\ t.fixture = task[w].fixture
  BY <1>2 DEF TaskState
<1>4. task' = [task EXCEPT ![w] = t]
  BY DEF StartFails, Inv, TypeOK
<1>5. GoesOn
  BY SameChildren DEF StartFails, Inv
<1>6. slots' \subseteq Slot /\ children' \subseteq Fixture /\ faults' \in 0 .. MaxFaults
  BY WorkersAssumption DEF StartFails, Inv, TypeOK, pool
<1> HIDE DEF t
<1> QED BY <1>2, <1>3, <1>4, <1>5, <1>6, TaskStepKeeps DEF StartFails, pool

LEMMA RegisterKeeps ==
    ASSUME Inv, NEW w \in Worker, Register(w)
    PROVE  Inv'
<1> DEFINE t == [task[w] EXCEPT !.at = "waiting"]
<1>2. task[w].at = "spawned" /\ task[w].slot \in Slot /\ Busy(w) /\ OwnsChild(w) /\ task[w] \in TaskState /\ task[w].fixture \in Fixture
  BY TaskFacts DEF Register, Busy, OwnsChild
<1>3. t \in TaskState /\ t.at = "waiting" /\ t.slot \in Slot /\ t.fixture = task[w].fixture
  BY <1>2 DEF TaskState
<1>4. task' = [task EXCEPT ![w] = t]
  BY DEF Register, Inv, TypeOK
<1>5. GoesOn
  BY SameChildren DEF Register, Inv
<1>6. slots' \subseteq Slot /\ children' \subseteq Fixture /\ faults' \in 0 .. MaxFaults
  BY <1>2 DEF Register, Inv, TypeOK, pool
<1>7. children' = children \union {t.fixture}
  BY <1>3 DEF Register
<1> HIDE DEF t
<1> QED BY <1>2, <1>3, <1>4, <1>5, <1>6, <1>7, TaskStepKeeps DEF Register, pool

LEMMA ReapKeeps ==
    ASSUME Inv, NEW w \in Worker, TimesOut(w) \/ WaitFails(w)
    PROVE  Inv'
<1>1. PICK r \in BOOLEAN : task' = [task EXCEPT ![w] = [task[w] EXCEPT !.at = "reaping", !.raises = r]]
  <2>1. task[w] \in TaskState
    BY TaskFacts
  <2>2. CASE TimesOut(w)
    <3>1. [task[w] EXCEPT !.at = "reaping"] = [task[w] EXCEPT !.at = "reaping", !.raises = task[w].raises]
      BY <2>1 DEF TaskState
    <3>2. task' = [task EXCEPT ![w] = [task[w] EXCEPT !.at = "reaping"]]
      BY <2>2 DEF TimesOut, Inv, TypeOK
    <3> QED BY <2>1, <3>1, <3>2 DEF TaskState
  <2>3. CASE WaitFails(w)
    BY <2>3 DEF WaitFails, Inv, TypeOK
  <2> QED BY <2>2, <2>3
<1>2. /\ task[w].at = "waiting" /\ task[w].slot \in Slot /\ Busy(w) /\ OwnsChild(w) /\ task[w] \in TaskState
      /\ task[w].fixture \in Fixture /\ task[w].fixture \in children
  BY TaskFacts DEF TimesOut, WaitFails, Busy, OwnsChild, Inv, Owned
<1>3. PICK u : u = [task[w] EXCEPT !.at = "reaping", !.raises = r]
  OBVIOUS
<1>4. u \in TaskState /\ u.at = "reaping" /\ u.slot \in Slot /\ u.fixture = task[w].fixture
  BY <1>2, <1>3 DEF TaskState
<1>5. GoesOn
  BY <1>2, TermGoesOn DEF TimesOut, WaitFails, Inv
<1>6. slots' \subseteq Slot /\ children' = children /\ children \subseteq Fixture /\ faults' \in 0 .. MaxFaults
  BY WorkersAssumption DEF TimesOut, WaitFails, Inv, TypeOK, pool
<1>7. UNCHANGED <<queue, future, cancel, main, outcomes, lost, evidence, signalled>>
  BY DEF TimesOut, WaitFails, pool
<1>8. task' = [task EXCEPT ![w] = u] /\ children' \subseteq Fixture /\ slots' \subseteq Slot
      /\ u.at # "idle" /\ u.fixture \in children'
      /\ \A g \in Fixture : g # u.fixture => (g \in children' <=> g \in children)
  BY <1>1, <1>2, <1>3, <1>4, <1>6
<1> QED BY <1>2, <1>4, <1>5, <1>6, <1>7, <1>8, TaskStepKeeps

LEMMA ChildEndedKeeps ==
    ASSUME Inv, NEW w \in Worker, ChildEnded(w)
    PROVE  Inv'
<1> DEFINE t == [task[w] EXCEPT !.at = "record"]
<1>2. Busy(w) /\ task[w].slot \in Slot /\ task[w] \in TaskState /\ task[w].fixture \in Fixture
  BY TaskFacts DEF ChildEnded, Busy
<1>3. t \in TaskState /\ t.at = "record" /\ t.slot \in Slot /\ t.fixture = task[w].fixture
  BY <1>2 DEF TaskState
<1>4. task' = [task EXCEPT ![w] = t]
  BY DEF ChildEnded, Inv, TypeOK
<1>5. GoesOn
  BY SameChildren DEF ChildEnded, Inv
<1>6. slots' \subseteq Slot /\ children' \subseteq Fixture /\ faults' \in 0 .. MaxFaults
  BY DEF ChildEnded, Inv, TypeOK, pool
<1>7. children' = children \ {t.fixture} /\ Gone(t.fixture)
  BY <1>3 DEF ChildEnded
<1> HIDE DEF t
<1> QED BY <1>2, <1>3, <1>4, <1>5, <1>6, <1>7, TaskStepKeeps DEF ChildEnded, pool

LEMMA StartKeeps ==
    ASSUME Inv, NEW w \in Worker, Start(w)
    PROVE  Inv'
<1> USE DEF Inv
<1>0. PICK f : f = task[w].fixture
  OBVIOUS
<1>1. /\ task[w].at = "slot" /\ task[w].slot \in Slot /\ Busy(w) /\ task[w] \in TaskState /\ f \in Fixture
      /\ child[f].at = "none" /\ future[f] = "running"
  BY <1>0, TaskFacts DEF Start, Busy, Owned
<1>2. PICK t : t = [task[w] EXCEPT !.at = "spawned"]
  OBVIOUS
<1>3. t \in TaskState /\ t.at = "spawned" /\ t.slot \in Slot /\ t.fixture = f
  BY <1>0, <1>1, <1>2 DEF TaskState
<1>4. task' = [task EXCEPT ![w] = t]
  BY <1>2 DEF Start, TypeOK
<1>5. PICK c : c = [child[f] EXCEPT !.at = "working"]
  OBVIOUS
<1>6. child[f] \in ChildState /\ Sound(child[f])
  BY <1>1 DEF TypeOK, ChildSound
<1>7. c \in ChildState /\ c.at = "working" /\ Sound(c) /\ c.ended = child[f].ended
  BY <1>1, <1>5, <1>6 DEF ChildState, Sound
<1>8. child' = [child EXCEPT ![f] = c]
  BY <1>0, <1>5 DEF Start, TypeOK
<1>9. child'[f] = c /\ \A g \in Fixture : g # f => child'[g] = child[g]
  BY <1>1, <1>8 DEF TypeOK
<1>10. task'[w] = t /\ \A v \in Worker : v # w => task'[v] = task[v]
  BY <1>4 DEF TypeOK
<1>11. TypeOK'
  <2>1. child' \in [Fixture -> ChildState]
    BY <1>7, <1>8 DEF TypeOK
  <2>2. task' \in [Worker -> TaskState]
    BY <1>3, <1>4 DEF TypeOK
  <2>3. \A v \in Worker : task'[v].at \in {"idle", "checked"} \/ task'[v].slot \in Slot
    BY <1>3, <1>10 DEF TypeOK
  <2> QED BY <2>1, <2>2, <2>3 DEF TypeOK, Start, pool
<1>12. ChildSound'
  BY <1>7, <1>9 DEF ChildSound
<1>13. Busy(w)' /\ OwnsChild(w)' /\ task'[w].fixture = f /\ task'[w].at = "spawned"
  BY <1>3, <1>10 DEF Busy, OwnsChild
<1>14. f \in Starting /\ child'[f].at # "none"
  BY <1>0, <1>1, <1>7, <1>9 DEF Starting
<1>15. \A g \in Fixture : child[g].ended = "ok" => child'[g].ended = "ok"
  BY <1>7, <1>9
<1>16. \A g \in Fixture : g # f => (child'[g].at = "none" <=> child[g].at = "none") /\ (Gone(g) => Gone(g)')
  BY <1>9 DEF Gone
<1>17. /\ main' = main /\ evidence' = evidence /\ signalled' = signalled /\ queue' = queue /\ cancel' = cancel
       /\ future' = future /\ outcomes' = outcomes /\ lost' = lost /\ children' = children
  BY DEF Start, pool
<1> QED BY <1>0, <1>1, <1>10, <1>11, <1>12, <1>13, <1>14, <1>15, <1>16, <1>17, OwnStepKeeps

\* A thread lets go of its fixture, which is on record or lost.
LEMMA LeaveKeeps ==
    ASSUME Inv, NEW w \in Worker, task[w].at \in {"slot", "record"},
           NEW how \in {"done", "raised"}, Leave(w, how),
           cancel' \in BOOLEAN, cancel => cancel', faults' \in 0 .. MaxFaults,
           lost' \in SUBSET Fixture, lost \subseteq lost',
           \/ outcomes' = outcomes /\ task[w].fixture \in lost'
           \/ \E left \in BOOLEAN : outcomes' = [outcomes EXCEPT ![task[w].fixture] = Outcome(w, left)]
    PROVE  Inv'
<1> USE DEF Inv
<1>0. PICK f : f = task[w].fixture
  OBVIOUS
<1>1. /\ task[w].slot \in Slot /\ Busy(w) /\ ~ OwnsChild(w) /\ f \in Fixture /\ future[f] = "running"
  BY <1>0, TaskFacts DEF Busy, OwnsChild, Owned
<1>2. ASSUME NEW left \in BOOLEAN
      PROVE  /\ Outcome(w, left) \in [status : {"ok", "failed"}, leftovers : BOOLEAN]
             /\ Outcome(w, left).status = "ok" => child[f].ended = "ok"
  BY <1>0 DEF Outcome, Verdict
<1>3. /\ outcomes' \in [Fixture -> [status : {"ok", "failed"}, leftovers : BOOLEAN] \union {None}]
      /\ \A g \in Fixture : g # f => outcomes'[g] = outcomes[g]
      /\ outcomes'[f] # None \/ f \in lost'
      /\ outcomes'[f] # None /\ outcomes'[f].status = "ok" => child[f].ended = "ok"
  <2>1. CASE outcomes' = outcomes /\ f \in lost'
    BY <1>1, <2>1 DEF TypeOK, Recorded
  <2>2. ASSUME NEW left \in BOOLEAN, outcomes' = [outcomes EXCEPT ![f] = Outcome(w, left)]
        PROVE  <1>3
    <3>1. PICK o : o = Outcome(w, left)
      OBVIOUS
    <3>2. /\ o \in [status : {"ok", "failed"}, leftovers : BOOLEAN] /\ o # None
          /\ o.status = "ok" => child[f].ended = "ok"
      BY <1>2, <3>1, WorkersAssumption
    <3>3. outcomes' = [outcomes EXCEPT ![f] = o]
      BY <2>2, <3>1
    <3> QED BY <1>1, <3>2, <3>3 DEF TypeOK
  <2> QED BY <1>0, <2>1, <2>2
<1>6. task'[w] = Idle /\ \A v \in Worker : v # w => task'[v] = task[v]
  BY DEF Leave, TypeOK
<1>7. /\ future'[f] \in {"done", "raised"}
      /\ \A g \in Fixture : g # f => future'[g] = future[g]
  BY <1>0, <1>1 DEF Leave, TypeOK
<1>8. TypeOK'
  <2>2. Idle \in TaskState
    BY DEF Idle, TaskState
  <2>3. task' \in [Worker -> TaskState]
    BY <2>2 DEF Leave, TypeOK
  <2>4. future' \in [Fixture -> {"pending", "running", "done", "raised", "cancelled"}]
    BY DEF Leave, TypeOK
  <2>5. slots' \subseteq Slot
    BY <1>1 DEF Leave, TypeOK
  <2>7. UNCHANGED <<queue, child, children, main, signalled>>
    BY DEF Leave
  <2>8. \A v \in Worker : task'[v].at \in {"idle", "checked"} \/ task'[v].slot \in Slot
    BY <1>6 DEF TypeOK, Idle
  <2> QED BY <1>3, <2>8, <2>3, <2>4, <2>5, <2>7 DEF TypeOK
<1>9. UNCHANGED <<queue, child, children, main, evidence, signalled>>
  BY DEF Leave
<1>10. ChildSound'
  BY <1>9 DEF ChildSound
<1>11. ~ Busy(w)' /\ ~ OwnsChild(w)' /\ task'[w].at \notin {"checked", "slot", "spawned"}
  BY <1>6 DEF Busy, OwnsChild, Idle
<1>12. f \notin Alive'
  <2>1. f \notin Alive
    BY <1>0, <1>1 DEF Owned, Busy, OwnsChild
  <2> QED BY <2>1, <1>9 DEF Alive
<1>13. \A g \in Fixture : Gone(g) => Gone(g)'
  BY <1>9 DEF Gone
<1> QED BY <1>0, <1>1, <1>3, <1>6, <1>7, <1>8, <1>9, <1>10, <1>11, <1>12, <1>13, OwnStepKeeps

LEMMA RecordKeeps ==
    ASSUME Inv, NEW w \in Worker, Record(w)
    PROVE  Inv'
<1>1. task[w].raises \in BOOLEAN
  BY TaskFacts DEF TaskState
<1>2. /\ (IF task[w].raises THEN "raised" ELSE "done") \in {"done", "raised"}
      /\ cancel' \in BOOLEAN /\ (cancel => cancel')
      /\ lost' = lost /\ lost \in SUBSET Fixture /\ faults' \in 0 .. MaxFaults
  BY <1>1 DEF Record, Inv, TypeOK
<1> QED BY <1>2, LeaveKeeps DEF Record

LEMMA EscapeKeeps ==
    ASSUME Inv, NEW w \in Worker, Escape(w)
    PROVE  Inv'
<1>1. task[w].fixture \in Fixture
  BY TaskFacts DEF Escape, Busy
<1>2. /\ cancel' \in BOOLEAN /\ (cancel => cancel') /\ faults' \in 0 .. MaxFaults
      /\ lost' \in SUBSET Fixture /\ lost \subseteq lost'
  BY <1>1, WorkersAssumption DEF Escape, Inv, TypeOK
<1>3. \/ outcomes' = outcomes /\ task[w].fixture \in lost'
      \/ \E left \in BOOLEAN : outcomes' = [outcomes EXCEPT ![task[w].fixture] = Outcome(w, left)]
  BY DEF Escape
<1> QED BY <1>2, <1>3, LeaveKeeps DEF Escape

LEMMA ThreadKeeps ==
    ASSUME Inv, NEW w \in Worker, Thread(w)
    PROVE  Inv'
BY TakeKeeps, GetSlotKeeps, StartKeeps, StartFailsKeeps, RegisterKeeps, ReapKeeps, ChildEndedKeeps, RecordKeeps,
   EscapeKeeps
   DEF Thread

-----------------------------------------------------------------------------
(* The main thread.                                                            *)

\* What is left to show of a step of the main thread that leaves the queue alone.
LEMMA MainStepKeeps ==
    ASSUME Inv, GoesOn, UNCHANGED <<pool, task, children, outcomes, lost, faults, evidence>>,
           main' \in MainState, cancel' \in BOOLEAN, signalled' \in BOOLEAN, cancel => cancel',
           main.at # "sealed", main'.at # "sealed", Course'
    PROVE  Inv'
<1>1. ChildSound' /\ Owned' /\ Recorded'
  BY ChildrenKeepOwners, GoesOnMeans DEF Inv
<1>2. TypeOK'
  BY DEF Inv, TypeOK, GoesOn, pool
<1>3. Sealed'
  BY DEF Inv, Sealed
<1> QED BY <1>1, <1>2, <1>3 DEF Inv

LEMMA AwaitKeeps ==
    ASSUME Inv, Await
    PROVE  Inv'
<1> USE DEF Inv
<1>1. /\ main.at = "await" /\ main \in MainState /\ main.next \in 1 .. Len(Order) /\ Len(Order) \in Nat
      /\ UNCHANGED <<pool, task, child, children, cancel, outcomes, lost, faults, evidence, signalled>>
  BY WorkersAssumption DEF Await, MainOnly, TypeOK, MainState
<1>2. GoesOn
  BY <1>1, SameChildren
<1>3. Starting' = Starting /\ Alive' = Alive /\ (Quiescent' <=> Quiescent)
  BY <1>1 DEF Starting, Alive, Quiescent, pool
<1>4. main.stopped => /\ Starting \subseteq main.starting /\ Alive \subseteq main.todo \union main.starting
                      /\ cancel \/ Quiescent
                      /\ main.todo = {}
  BY DEF Course
<1>5. CASE future[Order[main.next]] = "done" /\ main.next = Len(Order) /\ main' = [main EXCEPT !.at = "join"]
  <2>1. main' \in MainState /\ main'.at = "join" /\ main'.stopped = main.stopped /\ main'.late = main.late
        /\ main'.now = main.now /\ main'.todo = main.todo /\ main'.starting = main.starting
    BY <1>1, <1>5 DEF MainState
  <2>2. \A f \in Fixture : future[f] = "done"
    <3>1. \A k \in 1 .. Len(Order) : future[Order[k]] = "done"
      BY <1>1, <1>5 DEF Course
    <3>2. DOMAIN Order = 1 .. Len(Order)
      BY WorkersAssumption
    <3>3. ASSUME NEW f \in Fixture PROVE future[f] = "done"
      <4>1. PICK k \in DOMAIN Order : Order[k] = f
        BY WorkersAssumption
      <4> QED BY <3>1, <3>2, <4>1
    <3> QED BY <3>3
  <2>3. Quiescent
    <3>1. ASSUME queue # <<>> PROVE FALSE
      BY <2>2, <3>1, HeadOfQueue DEF Owned
    <3>2. \A w \in Worker : task[w] = Idle
      BY <2>2 DEF Owned
    <3> QED BY <3>1, <3>2 DEF Quiescent
  <2>4. Course'
    BY <1>1, <1>3, <1>4, <2>1, <2>3 DEF Course
  <2> QED BY <1>1, <1>2, <2>1, <2>4, MainStepKeeps DEF TypeOK
<1>6. CASE future[Order[main.next]] = "done" /\ main.next # Len(Order) /\ main' = [main EXCEPT !.next = @ + 1]
  <2>1. main' \in MainState /\ main'.at = "await" /\ main'.stopped = main.stopped /\ main'.late = main.late
        /\ main'.now = main.now /\ main'.todo = main.todo /\ main'.starting = main.starting /\ main'.next = main.next + 1
    BY <1>1, <1>6 DEF MainState
  <2>2. \A k \in 1 .. Len(Order) : k < main'.next => future'[Order[k]] = "done"
    BY <1>1, <1>6, <2>1 DEF Course, pool
  <2>4. Course'
    BY <1>1, <1>3, <1>4, <2>1, <2>2 DEF Course
  <2> QED BY <1>1, <1>2, <2>1, <2>4, MainStepKeeps DEF TypeOK
<1>7. CASE main' = [main EXCEPT !.at = "cancel", !.raised = TRUE]
  <2>1. main' \in MainState /\ main'.at = "cancel" /\ main'.stopped = main.stopped /\ main'.late = main.late
        /\ main'.now = main.now /\ main'.todo = main.todo /\ main'.starting = main.starting
    BY <1>1, <1>7 DEF MainState
  <2>4. Course'
    BY <1>1, <1>3, <1>4, <2>1 DEF Course
  <2> QED BY <1>1, <1>2, <2>1, <2>4, MainStepKeeps DEF TypeOK
<1> QED BY <1>5, <1>6, <1>7 DEF Await

LEMMA CancelKeeps ==
    ASSUME Inv, Cancel
    PROVE  Inv'
<1> USE DEF Inv
<1>1. /\ main.at = "cancel" /\ main \in MainState /\ cancel'
      /\ UNCHANGED <<pool, task, child, children, outcomes, lost, faults, evidence, signalled>>
  BY DEF Cancel, MainOnly, TypeOK
<1>2. main' \in MainState /\ main'.at = "shutdown" /\ main'.stopped = main.stopped /\ main'.late = main.late
      /\ main'.now = main.now /\ main'.todo = main.todo /\ main'.starting = main.starting
  BY <1>1 DEF Cancel, MainState
<1>3. Starting' = Starting /\ Alive' = Alive /\ GoesOn
  BY <1>1, SameChildren DEF Starting, Alive
<1>4. Course'
  BY <1>1, <1>2, <1>3 DEF Course
<1> QED BY <1>1, <1>2, <1>3, <1>4, MainStepKeeps DEF TypeOK, Cancel

LEMMA ShutDownKeeps ==
    ASSUME Inv, ShutDown
    PROVE  Inv'
<1> USE DEF Inv
<1>1. /\ main.at = "shutdown" /\ main \in MainState /\ cancel /\ queue' = <<>>
      /\ UNCHANGED <<slots, task, child, children, cancel, outcomes, lost, faults, evidence, signalled>>
  BY DEF ShutDown, MainOnly, TypeOK, Course
<1>2. main' \in MainState /\ main'.at = "snapshot" /\ main'.stopped = main.stopped /\ main'.late = main.late
      /\ main'.now = main.now /\ main'.todo = main.todo /\ main'.starting = main.starting
  BY <1>1 DEF ShutDown, MainState
<1>3. Starting' = Starting /\ Alive' = Alive /\ (\A w \in Worker : Busy(w)' <=> Busy(w))
      /\ (\A w \in Worker : OwnsChild(w)' <=> OwnsChild(w))
  BY <1>1 DEF Starting, Alive, Busy, OwnsChild
<1>4. \A f \in Fixture : future'[f] = IF \E k \in DOMAIN queue : queue[k] = f THEN "cancelled" ELSE future[f]
  BY DEF ShutDown
<1>5. TypeOK'
  <2>1. future' \in [Fixture -> {"pending", "running", "done", "raised", "cancelled"}]
    BY DEF ShutDown, TypeOK
  <2> QED BY <1>1, <1>2, <2>1 DEF TypeOK
<1>6. \A w \in Worker : Busy(w) => task[w].fixture \in Fixture /\ future'[task[w].fixture] = "running"
  BY <1>4 DEF Owned
<1>7. Owned'
  <2>1. /\ \A j, k \in DOMAIN queue' : queue'[j] = queue'[k] => j = k
        /\ \A k \in DOMAIN queue' : future'[queue'[k]] = "pending"
    BY <1>1
  <2>2. \A f \in Fixture : future'[f] = "pending" => child'[f].at = "none"
    BY <1>1, <1>4 DEF Owned
  <2> QED BY <1>1, <1>3, <1>6, <2>1, <2>2 DEF Owned
<1>8. Recorded'
  BY <1>1, <1>3, <1>4 DEF Recorded
<1>9. Course'
  BY <1>1, <1>2, <1>3 DEF Course
<1>10. ChildSound' /\ Sealed'
  BY <1>1 DEF ChildSound, Sealed
<1> QED BY <1>5, <1>7, <1>8, <1>9, <1>10

LEMMA SnapshotKeeps ==
    ASSUME Inv, Snapshot
    PROVE  Inv'
<1> USE DEF Inv
<1>1. /\ main.at \in {"snapshot", "last"} /\ main \in MainState
      /\ UNCHANGED <<pool, task, child, children, cancel, outcomes, lost, faults, evidence, signalled>>
  BY DEF Snapshot, MainOnly, TypeOK
<1>2. Starting \subseteq Fixture
  BY TaskFacts DEF Starting, Busy
<1>3. /\ main' \in MainState /\ main'.late = main.late
      /\ main'.at = IF main.at = "last" THEN "laststop" ELSE "stop"
      /\ main'.now = main.now /\ main'.todo = children /\ main'.starting = Starting /\ main'.stopped = FALSE
  BY <1>1, <1>2 DEF Snapshot, MainState, TypeOK
<1>4. Starting' = Starting /\ Alive' = Alive /\ (Quiescent' <=> Quiescent) /\ GoesOn
  BY <1>1, SameChildren DEF Starting, Alive, Quiescent, pool
<1>5. Alive \subseteq children \union Starting
  <2>1. ASSUME NEW f \in Alive PROVE f \in children \union Starting
    <3>1. PICK w \in Worker : OwnsChild(w) /\ task[w].fixture = f
      BY DEF Owned
    <3> QED BY <3>1 DEF Owned, OwnsChild, Starting
  <2> QED BY <2>1
<1>6. cancel \/ Quiescent
  BY <1>1 DEF Course
<1>7. Course'
  BY <1>1, <1>3, <1>4, <1>5, <1>6 DEF Course
<1> QED BY <1>1, <1>3, <1>4, <1>7, MainStepKeeps DEF TypeOK

LEMMA StopOneKeeps ==
    ASSUME Inv, StopOne
    PROVE  Inv'
<1> USE DEF Inv
<1>1. /\ main.at \in {"stop", "laststop"} /\ main \in MainState
      /\ UNCHANGED <<pool, task, children, cancel, outcomes, lost, faults, evidence, signalled>>
  BY DEF StopOne, MainOnly, TypeOK
<1>2. PICK f \in main.todo : main' = [main EXCEPT !.now = f] /\ SendTerm(f)
  BY DEF StopOne
<1>3. /\ main' \in MainState /\ main'.at = main.at /\ main'.stopped = main.stopped /\ main'.late = main.late
      /\ main'.now = f /\ main'.todo = main.todo /\ main'.starting = main.starting /\ f \in Fixture
  BY <1>1, <1>2 DEF MainState
<1>4. GoesOn
  BY <1>2, <1>3, TermGoesOn
<1>5. Alive' \subseteq Alive /\ Starting' = Starting /\ (Quiescent' <=> Quiescent)
  BY <1>1, <1>4, GoesOnMeans, ChildrenKeepOwners
<1>6. Course'
  BY <1>1, <1>3, <1>5 DEF Course
<1> QED BY <1>1, <1>3, <1>4, <1>6, MainStepKeeps DEF TypeOK

LEMMA StoppedOneKeeps ==
    ASSUME Inv, StoppedOne
    PROVE  Inv'
<1> USE DEF Inv
<1>1. /\ main \in MainState /\ main.now \in Fixture /\ Gone(main.now)
      /\ UNCHANGED <<pool, task, child, children, cancel, outcomes, lost, faults, evidence, signalled>>
  BY DEF StoppedOne, MainOnly, TypeOK, MainState
<1>3. /\ main' \in MainState /\ main'.at = main.at /\ main'.stopped = main.stopped /\ main'.late = main.late
      /\ main'.now = None /\ main'.todo = main.todo \ {main.now} /\ main'.starting = main.starting /\ main'.next = main.next
  BY <1>1 DEF StoppedOne, MainState
<1>4. Starting' = Starting /\ Alive' = Alive /\ (Quiescent' <=> Quiescent) /\ GoesOn /\ future' = future
  BY <1>1, SameChildren DEF Starting, Alive, Quiescent, pool
<1>5. main.now \notin Alive
  BY <1>1 DEF Alive, Gone
<1>6. Course'
  BY <1>1, <1>3, <1>4, <1>5 DEF Course
<1>7. main.at # "sealed"
  BY DEF StoppedOne, Course
<1> QED BY <1>1, <1>3, <1>4, <1>6, <1>7, MainStepKeeps DEF TypeOK

LEMMA StopEndsKeeps ==
    ASSUME Inv, StopEnds
    PROVE  Inv'
<1> USE DEF Inv
<1>1. /\ main.at \in {"stop", "laststop"} /\ main \in MainState /\ main.todo = {}
      /\ UNCHANGED <<pool, task, child, children, cancel, outcomes, lost, faults, evidence, signalled>>
  BY DEF StopEnds, MainOnly, TypeOK
<1>3. /\ main' \in MainState /\ main'.stopped /\ main'.late = main.late
      /\ main'.at = IF main.at = "stop" THEN "join" ELSE "seal"
      /\ main'.now = main.now /\ main'.todo = {} /\ main'.starting = main.starting
  BY <1>1 DEF StopEnds, MainState
<1>4. Starting' = Starting /\ Alive' = Alive /\ (Quiescent' <=> Quiescent) /\ GoesOn
  BY <1>1, SameChildren DEF Starting, Alive, Quiescent, pool
<1>6. Course'
  BY <1>1, <1>3, <1>4 DEF Course
<1> QED BY <1>1, <1>3, <1>4, <1>6, MainStepKeeps DEF TypeOK

LEMMA JoinKeeps ==
    ASSUME Inv, Join
    PROVE  Inv'
<1> USE DEF Inv
<1>1. /\ main.at = "join" /\ main \in MainState /\ Quiescent
      /\ UNCHANGED <<pool, task, child, children, cancel, outcomes, lost, faults, evidence, signalled>>
  BY DEF Join, MainOnly, TypeOK
<1>3. /\ main' \in MainState /\ main'.stopped = main.stopped /\ main'.late = main.late /\ main'.at = "last"
      /\ main'.now = main.now /\ main'.todo = main.todo /\ main'.starting = main.starting
  BY <1>1 DEF Join, MainState
<1>4. Starting' = Starting /\ Alive' = Alive /\ (Quiescent' <=> Quiescent) /\ GoesOn
  BY <1>1, SameChildren DEF Starting, Alive, Quiescent, pool
<1>6. Course'
  BY <1>1, <1>3, <1>4 DEF Course
<1> QED BY <1>1, <1>3, <1>4, <1>6, MainStepKeeps DEF TypeOK

LEMMA SignalKeeps ==
    ASSUME Inv, Signal
    PROVE  Inv'
<1> USE DEF Inv
<1>1. /\ main \in MainState /\ ~ signalled /\ signalled'
      /\ UNCHANGED <<pool, task, child, children, cancel, outcomes, lost, faults, evidence>>
  BY DEF Signal, MainOnly, TypeOK
<1>2. Starting' = Starting /\ Alive' = Alive /\ (Quiescent' <=> Quiescent) /\ GoesOn
  BY <1>1, SameChildren DEF Starting, Alive, Quiescent, pool
<1>3. CASE main.at = "await" /\ main' = [main EXCEPT !.at = "cancel", !.raised = TRUE]
  <2>1. /\ main' \in MainState /\ main'.stopped = main.stopped /\ main'.late = main.late /\ main'.at = "cancel"
        /\ main'.now = main.now /\ main'.todo = main.todo /\ main'.starting = main.starting
    BY <1>1, <1>3 DEF MainState
  <2>2. Course'
    BY <1>1, <1>2, <1>3, <2>1 DEF Course
  <2> QED BY <1>1, <1>2, <1>3, <2>1, <2>2, MainStepKeeps DEF TypeOK
<1>4. CASE /\ main.at \in {"cancel", "shutdown", "snapshot", "stop"}
           /\ main' = [main EXCEPT !.at = "join", !.todo = {}, !.now = None, !.raised = TRUE]
  <2>1. /\ main' \in MainState /\ main'.stopped = main.stopped /\ main'.late = main.late /\ main'.at = "join"
        /\ main'.now = None /\ main'.todo = {} /\ main'.starting = main.starting
    BY <1>1, <1>4 DEF MainState
  <2>2. Course'
    BY <1>1, <1>2, <1>4, <2>1 DEF Course
  <2> QED BY <1>1, <1>2, <1>4, <2>1, <2>2, MainStepKeeps DEF TypeOK
<1>5. CASE main.at = "join" /\ main' = [main EXCEPT !.at = "last", !.raised = TRUE, !.late = ~ Quiescent]
  <2>1. /\ main' \in MainState /\ main'.stopped = main.stopped /\ main'.at = "last"
        /\ main'.now = main.now /\ main'.todo = main.todo /\ main'.starting = main.starting
    BY <1>1, <1>5 DEF MainState
  <2>2. main'.late <=> ~ Quiescent
    BY <1>1, <1>5 DEF MainState
  <2>3. cancel \/ Quiescent
    BY <1>1, <1>5 DEF Course
  <2>4. Course'
    BY <1>1, <1>2, <1>5, <2>1, <2>2, <2>3 DEF Course
  <2> QED BY <1>1, <1>2, <1>5, <2>1, <2>4, MainStepKeeps DEF TypeOK
<1> QED BY <1>3, <1>4, <1>5 DEF Signal

LEMMA SealKeeps ==
    ASSUME Inv, Seal
    PROVE  Inv'
<1> USE DEF Inv
<1>1. /\ main.at = "seal" /\ main \in MainState
      /\ UNCHANGED <<pool, task, child, children, cancel, outcomes, lost, faults, signalled>>
  BY DEF Seal, MainOnly, TypeOK
<1>2. /\ main' \in MainState /\ main'.stopped = main.stopped /\ main'.late = main.late /\ main'.at = "sealed"
      /\ main'.now = main.now /\ main'.todo = main.todo /\ main'.starting = main.starting
  BY <1>1 DEF Seal, MainState
<1>3. Starting' = Starting /\ Alive' = Alive /\ (Quiescent' <=> Quiescent) /\ GoesOn
  BY <1>1, SameChildren DEF Starting, Alive, Quiescent, pool
<1>4. ChildSound' /\ Owned' /\ Recorded'
  BY <1>1, <1>3, ChildrenKeepOwners, GoesOnMeans
<1>5. TypeOK'
  BY <1>1, <1>2 DEF TypeOK, pool
<1>6. Course'
  BY <1>1, <1>2, <1>3 DEF Course
<1>7. evidence'.outcomes = outcomes /\ evidence'.complete = Complete
  BY DEF Seal
<1>8. Complete => \A f \in Fixture : child[f].ended = "ok" /\ outcomes[f] # None
  BY DEF Complete, Recorded
<1>9. Sealed'
  BY <1>1, <1>2, <1>7, <1>8 DEF Sealed
<1> QED BY <1>4, <1>5, <1>6, <1>9

LEMMA MainKeeps ==
    ASSUME Inv, Main \/ Signal
    PROVE  Inv'
BY AwaitKeeps, CancelKeeps, ShutDownKeeps, SnapshotKeeps, StopOneKeeps, StoppedOneKeeps, StopEndsKeeps, JoinKeeps,
   SealKeeps, SignalKeeps DEF Main

-----------------------------------------------------------------------------
(* The theorems.                                                               *)

LEMMA InitInv == Init => Inv
<1> SUFFICES ASSUME Init PROVE Inv
  OBVIOUS
<1> USE DEF Init
<1>1. TypeOK
  <2>1. Idle \in TaskState /\ Unborn \in ChildState /\ Len(Order) \in Nat /\ 1 \in 1 .. Len(Order)
    BY WorkersAssumption DEF Idle, Unborn, TaskState, ChildState
  <2>2. main \in MainState
    BY <2>1 DEF MainState
  <2>3. \A w \in Worker : task[w].at = "idle"
    BY DEF Idle
  <2>4. /\ future \in [Fixture -> {"pending", "running", "done", "raised", "cancelled"}]
        /\ task \in [Worker -> TaskState] /\ child \in [Fixture -> ChildState]
        /\ outcomes \in [Fixture -> [status : {"ok", "failed"}, leftovers : BOOLEAN] \union {None}]
    BY <2>1
  <2>5. /\ queue \in Seq(Fixture) /\ slots \subseteq Slot /\ children \subseteq Fixture /\ lost \subseteq Fixture
        /\ faults \in 0 .. MaxFaults
    BY WorkersAssumption
  <2>6. cancel \in BOOLEAN /\ signalled \in BOOLEAN
    OBVIOUS
  <2> QED BY <2>2, <2>3, <2>4, <2>5, <2>6 DEF TypeOK
<1>2. \A f \in Fixture : child[f].at = "none" /\ ~ child[f].cli /\ child[f].ended = None
  BY DEF Unborn
<1>3. ChildSound /\ Alive = {}
  BY <1>2, WorkersAssumption DEF ChildSound, Sound, Alive
<1>4. \A w \in Worker : task[w] = Idle /\ ~ Busy(w) /\ task[w].at = "idle"
  BY DEF Busy, Idle
<1>5. \A k \in DOMAIN Order : Order[k] \in Fixture
  BY WorkersAssumption
<1>6. Owned
  BY <1>2, <1>3, <1>4, <1>5, WorkersAssumption DEF Owned, OwnsChild
<1>7. Recorded
  BY <1>2 DEF Recorded
<1>8. Course /\ Sealed
  BY <1>3 DEF Course, Sealed
<1> QED BY <1>1, <1>3, <1>6, <1>7, <1>8 DEF Inv

LEMMA NextInv ==
    ASSUME GraceCovers, Inv, [Next]_vars
    PROVE  Inv'
<1>1. CASE Main \/ Signal
  BY <1>1, MainKeeps
<1>2. CASE \E w \in Worker : Thread(w)
  BY <1>2, ThreadKeeps
<1>3. ASSUME NEW f \in Fixture, Child(f) \/ Crash(f) \/ Kill(f) PROVE Inv'
  <2>1. GoesOn
    BY <1>3, ChildGoesOn, CrashGoesOn, KillGoesOn DEF Inv
  <2>2. faults' \in 0 .. MaxFaults
    BY <1>3, WorkersAssumption DEF Child, Crash, Kill, Inv, TypeOK
  <2>3. UNCHANGED <<pool, task, children, cancel, main, outcomes, lost, evidence, signalled>>
    BY <1>3 DEF Child, Crash, Kill
  <2> QED BY <2>1, <2>2, <2>3, ChildStepKeeps
<1>4. CASE UNCHANGED vars
  <2>1. GoesOn
    BY <1>4, SameChildren DEF vars, Inv
  <2> QED BY <1>4, <2>1, ChildStepKeeps DEF vars, Inv, TypeOK
<1> QED BY <1>1, <1>2, <1>3, <1>4 DEF Next

LEMMA InvHolds ==
    ASSUME GraceCovers
    PROVE  Spec => []Inv
<1>1. Inv /\ [Next]_vars => Inv'
  BY NextInv
<1> QED BY <1>1, InitInv, PTL DEF Spec

\* Type correctness of the threads, the children and the main thread.
THEOREM WorkersTypeCorrect == GraceCovers => (Spec => []TypeOK)
<1> SUFFICES ASSUME GraceCovers PROVE Spec => []TypeOK
  OBVIOUS
<1>1. Inv => TypeOK
  BY DEF Inv
<1> QED BY <1>1, InvHolds, PTL

\* No review CLI outlives its child because the parent's grace was too short, for any
\* graces in the relation that the code's constants have (PARENT_GRACE_S,
\* CHILD_GRACE_S and KILL_WAIT_S of benchmark_termination.py).
THEOREM OrphansAreExplained == GraceCovers => (Spec => []OrphansExplained)
<1> SUFFICES ASSUME GraceCovers PROVE Spec => []OrphansExplained
  OBVIOUS
<1>1. Inv => OrphansExplained
  BY DEF Inv, ChildSound, Sound, OrphansExplained, Gone
<1> QED BY <1>1, InvHolds, PTL

\* When stop_all of benchmark_concurrency_workers.py has gone through, only children
\* that were starting when it looked still run, for any number of threads.
THEOREM StopMissesOnlyTheStarting == GraceCovers => (Spec => []StopMissesOnlyStarting)
<1> SUFFICES ASSUME GraceCovers PROVE Spec => []StopMissesOnlyStarting
  OBVIOUS
<1>1. Inv => StopMissesOnlyStarting
  BY DEF Inv, Course, StopMissesOnlyStarting
<1> QED BY <1>1, InvHolds, PTL

\* The sealed evidence of run_concurrency_experiment.py is final and true, for any
\* fixtures, threads and faults, and a signal at any step.
THEOREM SealedEvidenceIsTrue == GraceCovers => (Spec => []SealedIsTrue)
<1> SUFFICES ASSUME GraceCovers PROVE Spec => []SealedIsTrue
  OBVIOUS
<1>1. Inv => SealedIsTrue
  <2> SUFFICES ASSUME Inv, evidence # None PROVE
        /\ evidence.complete => \A f \in Fixture : Gone(f) /\ child[f].ended = "ok" /\ ~ child[f].cli
        /\ ~ main.late =>
               /\ Alive = {} /\ Quiescent /\ evidence.outcomes = outcomes
               /\ \A f \in Fixture : child[f].at # "none" \/ future[f] = "raised" =>
                                      outcomes[f] # None \/ (f \in lost /\ ~ evidence.complete)
    BY DEF SealedIsTrue
  <2>1. evidence.complete => \A f \in Fixture : Gone(f) /\ child[f].ended = "ok" /\ ~ child[f].cli
    BY DEF Inv, Sealed, ChildSound, Sound, Gone
  <2>2. ASSUME ~ main.late
        PROVE  /\ Alive = {} /\ Quiescent /\ evidence.outcomes = outcomes
               /\ \A f \in Fixture : child[f].at # "none" \/ future[f] = "raised" =>
                                      outcomes[f] # None \/ (f \in lost /\ ~ evidence.complete)
    <3>1. Quiescent /\ evidence.outcomes = outcomes
      BY <2>2 DEF Inv, Sealed, Course
    <3>2. \A w \in Worker : ~ Busy(w) /\ ~ OwnsChild(w)
      BY <3>1 DEF Quiescent, Busy, OwnsChild, Idle
    <3>3. Alive = {}
      BY <3>2 DEF Inv, Owned
    <3>4. \A f \in Fixture : child[f].at # "none" \/ future[f] = "raised" =>
                             outcomes[f] # None \/ (f \in lost /\ ~ evidence.complete)
      BY <3>1, <3>2 DEF Inv, Recorded, Sealed
    <3> QED BY <3>1, <3>3, <3>4
  <2> QED BY <2>1, <2>2
<1> QED BY <1>1, InvHolds, PTL
=============================================================================
