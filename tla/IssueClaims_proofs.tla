---------------------------- MODULE IssueClaims_proofs ----------------------------
(***************************************************************************)
(* Proofs about IssueClaims, for any issues, actors, commands and failures: *)
(* types, the two properties of restrictions, and that claims and labels    *)
(* follow the commands of an issue none of whose commenters has been        *)
(* restricted. The invariants build on each other: CooldownInv says what    *)
(* restrictions there are, ReplayInv that a checkpoint is what the receipts *)
(* before it come to, LabelInv that the label follows.                      *)
(***************************************************************************)
EXTENDS IssueClaims, WellFoundedInduction, SequenceTheorems, TLAPS

-----------------------------------------------------------------------------
(* Numbers. *)

\* Least counterexample: what holds of 0 and passes to the successor holds.
LEMMA Induction ==
    ASSUME NEW S \in SUBSET Nat, 0 \in S, \A n \in S : n + 1 \in S
    PROVE  S = Nat
<1> SUFFICES ASSUME Nat \ S # {} PROVE FALSE
  OBVIOUS
<1>1. PICK n \in Nat \ S : \A m \in Nat \ S : ~ (<<m, n>> \in OpToRel(<, Nat))
  <2>1. Nat \ S \subseteq Nat /\ Nat \ S # {} OBVIOUS
  <2> QED BY <2>1, NatLessThanWellFounded, WFMin, Zenon
<1>2. \A m \in Nat \ S : ~ (m < n)
  BY <1>1, Zenon DEF OpToRel
<1>3. n \in Nat /\ n # 0 /\ n - 1 \in Nat /\ n - 1 < n /\ n = (n - 1) + 1
  OBVIOUS
<1>4. n - 1 \in S
  BY <1>2, <1>3
<1> QED BY <1>3, <1>4

\* A set of numbers has a least one, which Min returns.
LEMMA MinIsLeast ==
    ASSUME NEW S \in SUBSET Nat, S # {}
    PROVE  Min(S) \in S /\ \A m \in S : Min(S) <= m
<1>1. PICK n \in S : \A m \in S : ~ (<<m, n>> \in OpToRel(<, Nat))
  BY NatLessThanWellFounded, WFMin, Zenon
<1>2. \A m \in S : ~ (m < n)
  BY <1>1, Zenon DEF OpToRel
<1>3. \A m \in S : n <= m
  BY <1>2
<1> QED BY <1>3 DEF Min

\* A set of numbers with a bound has a greatest one, which Max returns.
LEMMA MaxIsGreatest ==
    ASSUME NEW S \in SUBSET Nat, S # {}, NEW b \in Nat, \A m \in S : m <= b
    PROVE  Max(S) \in S /\ \A m \in S : m <= Max(S)
<1> DEFINE B == {n \in Nat : \A m \in S : m <= n}
<1>1. B \in SUBSET Nat /\ B # {}
  OBVIOUS
<1>2. PICK n : n = Min(B)
  OBVIOUS
<1>3. n \in Nat /\ (\A m \in S : m <= n) /\ \A k \in Nat : (\A m \in S : m <= k) => n <= k
  <2> HIDE DEF B
  <2>1. n \in B /\ \A k \in B : n <= k
    BY <1>1, <1>2, MinIsLeast
  <2> QED BY <2>1 DEF B
<1>4. n \in S
  <2> SUFFICES ASSUME n \notin S PROVE FALSE
    OBVIOUS
  <2>1. \A m \in S : m \in Nat /\ m < n
    BY <1>3
  <2>2. n # 0
    <3>1. PICK m \in S : m \in Nat /\ m < n
      BY <2>1
    <3> QED BY <1>3, <3>1
  <2>3. n - 1 \in Nat /\ \A m \in S : m <= n - 1
    BY <1>3, <2>1, <2>2
  <2> QED BY <1>3, <2>3
<1>5. \E x \in S : \A y \in S : x >= y
  BY <1>3, <1>4
<1> QED BY <1>5 DEF Max

-----------------------------------------------------------------------------
(* The course of a replay. *)

\* What holds after command d, when a function f says what holds before.
StepOf(start, ids, i, f, d) ==
    IF d = 0 THEN start ELSE IF d \in ids THEN Answer(f[d - 1], d, i) ELSE f[d - 1]

IsCourse(f, n, start, ids, i) == f = [d \in 0 .. n |-> StepOf(start, ids, i, f, d)]

\* The recursion of Course has a solution for every number of commands.
LEMMA CourseExists ==
    ASSUME NEW start, NEW ids, NEW i, NEW n \in Nat
    PROVE  \E f : IsCourse(f, n, start, ids, i)
<1> DEFINE S == {m \in Nat : \E f : f = [d \in 0 .. m |-> StepOf(start, ids, i, f, d)]}
<1>1. 0 \in S
  <2> DEFINE f == [d \in 0 .. 0 |-> start]
  <2>1. f = [d \in 0 .. 0 |-> StepOf(start, ids, i, f, d)]
    BY DEF StepOf
  <2> QED BY <2>1
<1>2. ASSUME NEW m \in S PROVE m + 1 \in S
  <2>1. m \in Nat /\ m + 1 \in Nat
    OBVIOUS
  <2>2. PICK f : f = [d \in 0 .. m |-> StepOf(start, ids, i, f, d)]
    OBVIOUS
  <2> DEFINE g == [d \in 0 .. (m + 1) |-> StepOf(start, ids, i, f, d)]
  <2>3. ASSUME NEW d \in 0 .. m PROVE g[d] = f[d]
    <3>1. d \in 0 .. (m + 1)
      BY <2>1
    <3>2. f[d] = StepOf(start, ids, i, f, d)
      BY <2>2
    <3> QED BY <3>1, <3>2
  <2>4. ASSUME NEW d \in 0 .. (m + 1)
        PROVE  StepOf(start, ids, i, f, d) = StepOf(start, ids, i, g, d)
    <3>1. CASE d = 0
      BY <3>1 DEF StepOf
    <3>2. CASE d # 0
      <4>1. d - 1 \in 0 .. m
        BY <2>1, <3>2
      <4>2. g[d - 1] = f[d - 1]
        BY <2>3, <4>1
      <4> HIDE DEF g
      <4> QED BY <4>2 DEF StepOf
    <3> QED BY <3>1, <3>2
  <2>5. g = [d \in 0 .. (m + 1) |-> StepOf(start, ids, i, g, d)]
    <3> DEFINE h == [d \in 0 .. (m + 1) |-> StepOf(start, ids, i, g, d)]
    <3>1. \A d \in 0 .. (m + 1) : g[d] = StepOf(start, ids, i, f, d)
      OBVIOUS
    <3>2. \A d \in 0 .. (m + 1) : g[d] = StepOf(start, ids, i, g, d)
      <4> HIDE DEF g
      <4> QED BY <3>1, <2>4
    <3>3. g = [d \in 0 .. (m + 1) |-> g[d]]
      OBVIOUS
    <3> HIDE DEF g
    <3> QED BY <3>2, <3>3
  <2> HIDE DEF g
  <2> QED BY <2>1, <2>5
<1> HIDE DEF S
<1>3. S = Nat
  <2>1. S \in SUBSET Nat BY DEF S
  <2> QED BY <1>1, <1>2, <2>1, Induction
<1>4. PICK f : f = [d \in 0 .. n |-> StepOf(start, ids, i, f, d)]
  BY <1>3 DEF S
<1> QED BY <1>4 DEF IsCourse

\* A course starts at its start and goes on by the commands that count.
LEMMA CourseSteps ==
    ASSUME Len(commands) \in Nat, NEW start, NEW ids, NEW i
    PROVE  /\ Course(start, ids, i)[0] = start
           /\ \A d \in 1 .. Len(commands) :
                 Course(start, ids, i)[d] =
                     IF d \in ids THEN Answer(Course(start, ids, i)[d - 1], d, i)
                                  ELSE Course(start, ids, i)[d - 1]
<1> DEFINE n == Len(commands)
           C == Course(start, ids, i)
<1>1. C = CHOOSE f : f = [d \in 0 .. n |-> IF d = 0 THEN start
                             ELSE IF d \in ids THEN Answer(f[d - 1], d, i) ELSE f[d - 1]]
  BY DEF Course
<1>2. \E f : f = [d \in 0 .. n |-> IF d = 0 THEN start
                             ELSE IF d \in ids THEN Answer(f[d - 1], d, i) ELSE f[d - 1]]
  <2>1. PICK f : IsCourse(f, n, start, ids, i)
    BY CourseExists
  <2>2. f = [d \in 0 .. n |-> StepOf(start, ids, i, f, d)]
    BY <2>1 DEF IsCourse
  <2>3. f = [d \in 0 .. n |-> IF d = 0 THEN start
                             ELSE IF d \in ids THEN Answer(f[d - 1], d, i) ELSE f[d - 1]]
    BY <2>2 DEF StepOf
  <2> QED BY <2>3
<1>3. C = [d \in 0 .. n |-> IF d = 0 THEN start
                             ELSE IF d \in ids THEN Answer(C[d - 1], d, i) ELSE C[d - 1]]
  <2> HIDE DEF C
  <2> QED BY <1>1, <1>2
<1> HIDE DEF C
<1>4. C[0] = start
  <2>1. 0 \in 0 .. n OBVIOUS
  <2> QED BY <1>3, <2>1
<1>5. ASSUME NEW d \in 1 .. n
      PROVE  C[d] = IF d \in ids THEN Answer(C[d - 1], d, i) ELSE C[d - 1]
  <2>1. d \in 0 .. n /\ d # 0 OBVIOUS
  <2> QED BY <1>3, <2>1
<1> QED BY <1>4, <1>5 DEF C

-----------------------------------------------------------------------------
(* The restrictions there are. *)

Restricted(k) == bot[k].restriction # None

\* A restriction in force on the actor, wherever it was posted.
Barred(a) == \E k \in DOMAIN bot : /\ Restricted(k)
                                   /\ bot[k].restriction.actor = a
                                   /\ bot[k].restriction.until > clock

\* Comments carry the time they were posted at, and a restriction's end lies
\* within a cooldown of the comment that says it.
Dated ==
    \A k \in DOMAIN bot :
        /\ bot[k].at <= clock
        /\ Restricted(k) => /\ bot[k].at < bot[k].restriction.until
                            /\ bot[k].restriction.until <= bot[k].at + Cooldown

\* The receipts of an issue's comments are of commands on that issue.
OnIssue ==
    /\ \A k \in DOMAIN bot :
          bot[k].receipt # None => commands[bot[k].receipt].issue = bot[k].issue
    /\ run # Idle => commands[run.command].issue = run.issue

\* A restriction that is about to be posted runs, and repeats the end of
\* every one of the same actor that runs.
RestrictionInHand ==
    LET r == run.restriction IN
    r # None => /\ clock < r.until /\ r.until <= clock + Cooldown
                /\ \A k \in DOMAIN bot :
                      (/\ Restricted(k) /\ bot[k].restriction.actor = r.actor
                       /\ bot[k].restriction.until > clock)
                         => bot[k].restriction.until = r.until

\* A claim that is about to be recorded is of nobody who is restricted.
ClaimsInHand ==
    \A d \in run.transitions : commands[d].verb = "claim" => ~ Barred(commands[d].actor)

InHand == run.stage \in {"receipt", "checkpoint"} => RestrictionInHand /\ ClaimsInHand

CooldownInv == TypeOK /\ OnIssue /\ Dated /\ CooldownNotExtended /\ InHand

\* The parameters are numbers, and comments are read back over a cooldown.
LEMMA ParameterTypes ==
    /\ Cooldown \in Nat \ {0} /\ Window \in Nat /\ Threshold \in Nat
    /\ MaxCommands \in Nat /\ Horizon \in Nat /\ MaxFailures \in Nat
    /\ Larger(Window, Cooldown) \in Nat /\ Cooldown <= Larger(Window, Cooldown)
<1>1. /\ Cooldown \in Nat \ {0} /\ Window \in Nat \ {0} /\ Threshold \in Nat \ {0}
      /\ MaxCommands \in Nat /\ Horizon \in Nat /\ MaxFailures \in Nat
  BY ClaimAssumption
<1> QED BY <1>1 DEF Larger

\* What a comment of the bot holds.
LEMMA PostTypes ==
    ASSUME TypeOK, NEW k \in DOMAIN bot
    PROVE  /\ k \in 1 .. Len(bot) /\ Len(bot) \in Nat
           /\ bot[k].issue \in Issue /\ bot[k].at \in Nat
           /\ bot[k].receipt \in CommandIds \union {None}
           /\ bot[k].state # None => bot[k].state \in State
           /\ bot[k].transitions \subseteq CommandIds
           /\ Restricted(k) => bot[k].restriction \in Restriction
<1>1. k \in 1 .. Len(bot) /\ Len(bot) \in Nat
  BY DEF TypeOK
<1>2. bot[k] \in BotComment
  BY <1>1 DEF TypeOK
<1>3. bot[k].at \in Nat
  BY <1>2, ParameterTypes DEF BotComment
<1> QED BY <1>1, <1>2, <1>3 DEF Restricted, BotComment

\* What a command holds.
LEMMA CommandTypes ==
    ASSUME TypeOK
    PROVE  /\ Len(commands) \in Nat /\ Len(commands) <= MaxCommands
           /\ DOMAIN commands = CommandIds /\ CommandIds \subseteq Nat \ {0}
           /\ \A d \in CommandIds : /\ commands[d].issue \in Issue /\ commands[d].actor \in Actor
                                    /\ commands[d].verb \in {"claim", "unclaim"}
                                    /\ commands[d].open \in BOOLEAN
                                    /\ d \in 0 .. MaxCommands
<1>1. Len(commands) \in Nat /\ Len(commands) <= MaxCommands /\ DOMAIN commands = CommandIds
  BY DEF TypeOK, CommandIds
<1>2. ASSUME NEW d \in CommandIds
      PROVE  /\ commands[d].issue \in Issue /\ commands[d].actor \in Actor
             /\ commands[d].verb \in {"claim", "unclaim"} /\ commands[d].open \in BOOLEAN
  <2>1. commands[d] \in UserComment
    BY <1>1 DEF TypeOK
  <2> QED BY <2>1 DEF UserComment
<1> QED BY <1>1, <1>2, ParameterTypes DEF CommandIds

\* None is no actor, number, state or restriction.
LEMMA NoneIs ==
    None \notin Actor /\ None \notin Nat /\ None \notin State /\ None \notin Restriction
BY NoneIsNothing

\* What a restriction holds.
LEMMA RestrictionTypes ==
    ASSUME NEW r \in Restriction
    PROVE  r.actor \in Actor /\ r.until \in Nat /\ r.until <= Horizon + Cooldown
           /\ r.notified \in BOOLEAN /\ r # None
BY ParameterTypes, NoneIs DEF Restriction

\* Every restriction that is read was posted.
LEMMA ReadWasPosted ==
    ASSUME TypeOK, NEW i, NEW r \in Restrictions(i)
    PROVE  r \in Restriction /\ \E k \in DOMAIN bot : Restricted(k) /\ bot[k].restriction = r
<1>1. PICK k \in DOMAIN bot : bot[k].restriction = r /\ r # None
  BY DEF Restrictions, History
<1> QED BY <1>1, PostTypes DEF Restricted

\* Every restriction that runs is read, whatever issue is at hand.
LEMMA RunningIsRead ==
    ASSUME TypeOK, Dated, NEW i, NEW k \in DOMAIN bot,
           Restricted(k), bot[k].restriction.until > clock
    PROVE  bot[k].restriction \in Restrictions(i)
<1>1. bot[k].restriction.until <= bot[k].at + Cooldown
  BY DEF Dated
<1>2. bot[k].at \in Nat /\ clock \in Nat /\ bot[k].restriction.until \in Nat
  BY PostTypes, RestrictionTypes, ParameterTypes DEF TypeOK
<1>3. bot[k].at + Larger(Window, Cooldown) >= clock
  BY <1>1, <1>2, ParameterTypes
<1>4. bot[k] \in History(i)
  BY <1>3 DEF History
<1> QED BY <1>4 DEF Restrictions, Restricted

\* Two restrictions of one actor that run have one end.
LEMMA OneEnd ==
    ASSUME TypeOK, Dated, CooldownNotExtended,
           NEW k \in DOMAIN bot, NEW m \in DOMAIN bot, Restricted(k), Restricted(m),
           bot[k].restriction.actor = bot[m].restriction.actor,
           bot[k].restriction.until > clock, bot[m].restriction.until > clock
    PROVE  bot[k].restriction.until = bot[m].restriction.until
<1>1. /\ k \in Nat /\ m \in Nat /\ clock \in Nat
      /\ bot[k].at \in Nat /\ bot[m].at \in Nat /\ bot[k].at <= clock /\ bot[m].at <= clock
      /\ bot[k].restriction.until \in Nat /\ bot[m].restriction.until \in Nat
  <2>1. clock \in Nat
    BY ParameterTypes DEF TypeOK
  <2>2. \A j \in {k, m} : j \in Nat /\ bot[j].at \in Nat /\ bot[j].restriction \in Restriction
    BY PostTypes
  <2>3. bot[k].at <= clock /\ bot[m].at <= clock
    BY DEF Dated
  <2> QED BY <2>1, <2>2, <2>3, RestrictionTypes
<1>2. CASE k < m
  BY <1>1, <1>2 DEF CooldownNotExtended, Restricted
<1>3. CASE m < k
  BY <1>1, <1>3 DEF CooldownNotExtended, Restricted
<1> QED BY <1>1, <1>2, <1>3

\* ActiveRestriction finds a restriction of the actor that runs, if there is one.
LEMMA ActiveIs ==
    ASSUME TypeOK, Dated, CooldownNotExtended, NEW a, NEW i,
           NEW r, r = ActiveRestriction(a, Restrictions(i))
    PROVE  /\ r = None => ~ Barred(a)
           /\ r # None => \E k \in DOMAIN bot : /\ Restricted(k) /\ bot[k].restriction = r
                                                /\ r.actor = a /\ r.until > clock
<1> DEFINE active == {q \in Restrictions(i) : q.actor = a /\ q.until > clock}
           Best(x) == \A q \in active :
                         q.until < x.until \/ (q.until = x.until /\ (q.notified => x.notified))
<1>1. r = IF active = {} THEN None ELSE CHOOSE x \in active : Best(x)
  BY DEF ActiveRestriction
<1>2. \A k \in DOMAIN bot :
         (Restricted(k) /\ bot[k].restriction.actor = a /\ bot[k].restriction.until > clock)
            => bot[k].restriction \in active
  BY RunningIsRead
<1>3. \A q \in active : /\ q \in Restriction
                        /\ \E k \in DOMAIN bot : Restricted(k) /\ bot[k].restriction = q
  BY ReadWasPosted
<1>4. \A q, x \in active : q.until = x.until
  <2> TAKE q, x \in active
  <2>1. PICK k \in DOMAIN bot : Restricted(k) /\ bot[k].restriction = q
    BY <1>3
  <2>2. PICK m \in DOMAIN bot : Restricted(m) /\ bot[m].restriction = x
    BY <1>3
  <2> QED BY <2>1, <2>2, OneEnd
<1>5. CASE active = {}
  <2>1. r = None
    BY <1>1, <1>5
  <2>2. ~ Barred(a)
    <3> HIDE DEF active
    <3> QED BY <1>2, <1>5 DEF Barred
  <2> QED BY <2>1, <2>2
<1>6. CASE active # {}
  <2>1. \E x \in active : Best(x)
    <3>1. CASE \E x \in active : x.notified
      <4>1. PICK x \in active : x.notified
        BY <3>1
      <4> QED BY <4>1, <1>4
    <3>2. CASE ~ \E x \in active : x.notified
      <4>1. PICK x \in active : TRUE
        BY <1>6
      <4> QED BY <4>1, <3>2, <1>4
    <3> QED BY <3>1, <3>2
  <2>2. r \in active
    <3> HIDE DEF active, Best
    <3> QED BY <2>1, <1>1, <1>6
  <2>3. r \in Restriction /\ r.actor = a /\ r.until > clock
    BY <2>2, <1>3
  <2>4. PICK k \in DOMAIN bot : Restricted(k) /\ bot[k].restriction = r
    BY <2>2, <1>3
  <2> QED BY <2>3, <2>4, NoneIs
<1> QED BY <1>5, <1>6

-----------------------------------------------------------------------------
(* What a replay yields. *)

Replayed == [claimant : Actor \union {None}, through : 0 .. MaxCommands, authorized : BOOLEAN,
             fresh : SUBSET CommandIds, restriction : Restriction \union {None},
             post : BOOLEAN, blocked : BOOLEAN]

\* A replay takes over a restriction that runs, and lets nobody claim who is
\* restricted.
Sane(s) ==
    /\ s \in Replayed
    /\ s.restriction # None =>
          \E k \in DOMAIN bot : /\ Restricted(k) /\ bot[k].restriction.until > clock
                                /\ s.restriction = [bot[k].restriction EXCEPT !.notified = TRUE]
    /\ \A d \in s.fresh : commands[d].verb = "claim" => ~ Barred(commands[d].actor)

\* Where Replay starts, and the commands that count.
Anchor(i, c) == ReplayAnchor(i, Min(Receipts(i, c)))
Begin(i, c) ==
    [claimant |-> Anchor(i, c).claimant, through |-> Anchor(i, c).through,
     authorized |-> Anchor(i, c).trusted /\ Anchor(i, c).claimant = None,
     fresh |-> {}, restriction |-> None, post |-> TRUE, blocked |-> FALSE]
Counting(i, c) == {d \in Receipts(i, c) : d > Anchor(i, c).through}

\* A replay is the end of the course from its anchor.
LEMMA ReplayIsCourse ==
    ASSUME NEW i, NEW c
    PROVE  Replay(i, c) = Course(Begin(i, c), Counting(i, c), i)[Len(commands)]
BY DEF Replay, Begin, Counting, Anchor

\* The receipts of an issue and the command at hand are commands.
LEMMA ReceiptsAreCommands ==
    ASSUME TypeOK, NEW i, NEW c \in CommandIds
    PROVE  Receipts(i, c) \subseteq CommandIds /\ c \in Receipts(i, c)
BY PostTypes DEF Receipts, Comments

\* The anchor is a state, and says which: a checkpoint's or the empty one.
LEMMA AnchorTypes ==
    ASSUME TypeOK, NEW i, NEW first
    PROVE  /\ ReplayAnchor(i, first).claimant \in Actor \union {None}
           /\ ReplayAnchor(i, first).through \in 0 .. MaxCommands
           /\ ReplayAnchor(i, first).trusted \in BOOLEAN
           /\ (\A s \in Checkpoints(i) : ~ (s.through < first)) =>
                 ReplayAnchor(i, first) = [claimant |-> None, through |-> 0, trusted |-> FALSE]
<1> DEFINE anchors == {s \in Checkpoints(i) : s.through < first}
           Last(t) == \A u \in anchors : u.through <= t.through
           s0 == CHOOSE t \in anchors : Last(t)
<1>1. \A s \in anchors : s \in State /\ s.through \in Nat /\ s.through <= MaxCommands
  BY PostTypes, ParameterTypes DEF Checkpoints, Comments, State
<1>2. CASE anchors = {}
  BY <1>2, ParameterTypes DEF ReplayAnchor
<1>3. CASE anchors # {}
  <2> DEFINE T == {s.through : s \in anchors}
  <2>1. T \in SUBSET Nat /\ T # {} /\ \A m \in T : m <= MaxCommands
    BY <1>1, <1>3
  <2>2. Max(T) \in T /\ \A m \in T : m <= Max(T)
    <3> HIDE DEF T
    <3> QED BY <2>1, MaxIsGreatest, ParameterTypes
  <2>3. \E t \in anchors : Last(t)
    BY <2>2
  <2>4. s0 \in anchors
    <3> HIDE DEF anchors, Last
    <3> QED BY <2>3
  <2>5. ReplayAnchor(i, first) = [claimant |-> s0.claimant, through |-> s0.through, trusted |-> TRUE]
    <3>1. ReplayAnchor(i, first) = IF anchors = {} THEN [claimant |-> None, through |-> 0, trusted |-> FALSE]
             ELSE [claimant |-> s0.claimant, through |-> s0.through, trusted |-> TRUE]
      BY DEF ReplayAnchor
    <3> QED BY <3>1, <1>3
  <2>6. s0 \in State
    <3> HIDE DEF s0, anchors
    <3> QED BY <2>4, <1>1
  <2>7. s0.claimant \in Actor \union {None} /\ s0.through \in 0 .. MaxCommands
    <3> HIDE DEF s0
    <3> QED BY <2>6 DEF State
  <2>8. ~ \A s \in Checkpoints(i) : ~ (s.through < first)
    BY <1>3
  <2> HIDE DEF s0, anchors
  <2> QED BY <2>5, <2>7, <2>8
<1> QED BY <1>2, <1>3

\* A replay starts sanely.
LEMMA BeginSane ==
    ASSUME TypeOK, NEW i, NEW c
    PROVE  Sane(Begin(i, c))
<1>1. PICK a : a = Anchor(i, c)
  OBVIOUS
<1>2. /\ a.claimant \in Actor \union {None} /\ a.through \in 0 .. MaxCommands
      /\ a.trusted \in BOOLEAN
  BY <1>1, AnchorTypes DEF Anchor
<1>3. Begin(i, c) = [claimant |-> a.claimant, through |-> a.through,
                     authorized |-> a.trusted /\ a.claimant = None,
                     fresh |-> {}, restriction |-> None, post |-> TRUE, blocked |-> FALSE]
  BY <1>1 DEF Begin
<1>4. (a.trusted /\ a.claimant = None) \in BOOLEAN
  BY <1>2
<1>5. Begin(i, c) \in Replayed
  <2>1. PICK b \in BOOLEAN : b = (a.trusted /\ a.claimant = None)
    BY <1>4
  <2> QED BY <1>2, <1>3, <2>1 DEF Replayed
<1> QED BY <1>3, <1>5 DEF Sane

\* Answering a command keeps a replay sane.
LEMMA AnswerSane ==
    ASSUME TypeOK, Dated, CooldownNotExtended, NEW i, NEW s, Sane(s), NEW d \in CommandIds
    PROVE  Sane(Answer(s, d, i))
<1>1. PICK a : a = commands[d].actor
  OBVIOUS
<1>2. PICK r : r = ActiveRestriction(a, Restrictions(i))
  OBVIOUS
<1>3. PICK q : q = Quiet(s, d)
  OBVIOUS
<1>4. a \in Actor /\ d \in 0 .. MaxCommands
  BY <1>1, CommandTypes
<1>5. /\ q \in Replayed /\ q.restriction = s.restriction /\ q.fresh = s.fresh
      /\ s.fresh \subseteq CommandIds /\ s.restriction \in Restriction \union {None}
  BY <1>3, <1>4 DEF Quiet, Sane, Replayed
<1>6. Sane(q)
  BY <1>5 DEF Sane
<1>7. CASE commands[d].verb = "claim"
  <2>1. Answer(s, d, i) = ReplayClaim(s, d, i)
    BY <1>7 DEF Answer
  <2>2. CASE r # None
    <3>1. PICK k \in DOMAIN bot : Restricted(k) /\ bot[k].restriction = r /\ r.until > clock
      BY <1>2, <2>2, ActiveIs
    <3>2. r \in Restriction
      BY <3>1, PostTypes
    <3>3. PICK e : e = [r EXCEPT !.notified = TRUE]
      OBVIOUS
    <3>4. e \in Restriction /\ r.notified \in BOOLEAN
      BY <3>2, <3>3 DEF Restriction
    <3>5. ReplayClaim(s, d, i) = [q EXCEPT !.restriction = e, !.post = ~ r.notified, !.blocked = TRUE]
      BY <1>1, <1>2, <1>3, <2>2, <3>3 DEF ReplayClaim
    <3>6. PICK x : x = [q EXCEPT !.restriction = e, !.post = ~ r.notified, !.blocked = TRUE]
      OBVIOUS
    <3>7. x \in Replayed /\ x.restriction = e /\ x.fresh = s.fresh
      BY <3>4, <3>6, <1>5 DEF Replayed
    <3>8. Sane(x)
      BY <3>1, <3>3, <3>7 DEF Sane
    <3> QED BY <2>1, <3>5, <3>6, <3>8
  <2>3. CASE r = None /\ (~ commands[d].open \/ s.claimant # None)
    <3>1. ReplayClaim(s, d, i) = q
      BY <1>1, <1>2, <1>3, <2>3 DEF ReplayClaim
    <3> QED BY <2>1, <3>1, <1>6
  <2>4. CASE r = None /\ ~ (~ commands[d].open \/ s.claimant # None)
    <3>1. PICK F : F = IF d \in Recorded(i) THEN s.fresh ELSE s.fresh \union {d}
      OBVIOUS
    <3>2. ReplayClaim(s, d, i) = [q EXCEPT !.claimant = a, !.fresh = F]
      BY <1>1, <1>2, <1>3, <1>5, <2>4, <3>1 DEF ReplayClaim, Replayed
    <3>3. PICK x : x = [q EXCEPT !.claimant = a, !.fresh = F]
      OBVIOUS
    <3>4. F \subseteq CommandIds /\ F \subseteq s.fresh \union {d}
      BY <1>5, <3>1
    <3>5. x \in Replayed /\ x.restriction = s.restriction /\ x.fresh = F
      BY <3>3, <3>4, <1>4, <1>5 DEF Replayed
    <3>6. ~ Barred(a)
      BY <1>2, <2>4, ActiveIs
    <3>7. Sane(x)
      BY <3>4, <3>5, <3>6, <1>1 DEF Sane
    <3> QED BY <2>1, <3>2, <3>3, <3>7
  <2> QED BY <2>2, <2>3, <2>4
<1>8. CASE commands[d].verb # "claim"
  <2>1. Answer(s, d, i) = ReplayUnclaim(s, d, i)
    BY <1>8 DEF Answer
  <2>2. CASE a = s.claimant \/ a \in Maintainer
    <3>1. PICK F : F = IF s.claimant = None \/ d \in Recorded(i) THEN s.fresh ELSE s.fresh \union {d}
      OBVIOUS
    <3>2. ReplayUnclaim(s, d, i) = [q EXCEPT !.claimant = None, !.authorized = TRUE, !.fresh = F]
      BY <1>1, <1>3, <1>5, <2>2, <3>1 DEF ReplayUnclaim, Replayed
    <3>3. PICK x : x = [q EXCEPT !.claimant = None, !.authorized = TRUE, !.fresh = F]
      OBVIOUS
    <3>4. F \subseteq CommandIds /\ F \subseteq s.fresh \union {d}
      BY <1>5, <3>1
    <3>5. x \in Replayed /\ x.restriction = s.restriction /\ x.fresh = F
      BY <3>3, <3>4, <1>5 DEF Replayed
    <3>6. Sane(x)
      BY <3>4, <3>5, <1>8 DEF Sane
    <3> QED BY <2>1, <3>2, <3>3, <3>6
  <2>3. CASE ~ (a = s.claimant \/ a \in Maintainer)
    <3>1. ReplayUnclaim(s, d, i) = q
      BY <1>1, <1>3, <2>3 DEF ReplayUnclaim
    <3> QED BY <2>1, <3>1, <1>6
  <2> QED BY <2>2, <2>3
<1> QED BY <1>7, <1>8

\* So every replay ends sanely.
LEMMA ReplaySane ==
    ASSUME TypeOK, Dated, CooldownNotExtended, NEW i, NEW c \in CommandIds
    PROVE  Sane(Replay(i, c))
<1>1. PICK C : C = Course(Begin(i, c), Counting(i, c), i)
  OBVIOUS
<1>2. PICK ids : ids = Counting(i, c)
  OBVIOUS
<1>3. PICK n \in Nat : n = Len(commands)
  BY CommandTypes
<1>4. /\ C[0] = Begin(i, c)
      /\ \A d \in 1 .. n : C[d] = IF d \in ids THEN Answer(C[d - 1], d, i) ELSE C[d - 1]
  BY <1>1, <1>2, <1>3, CourseSteps
<1> DEFINE S == {m \in Nat : m <= n => Sane(C[m])}
<1>5. 0 \in S
  BY <1>4, BeginSane
<1>6. ASSUME NEW m \in S PROVE m + 1 \in S
  <2> SUFFICES ASSUME m + 1 <= n PROVE Sane(C[m + 1])
    OBVIOUS
  <2>1. m \in Nat /\ m + 1 \in 1 .. n /\ (m + 1) - 1 = m /\ Sane(C[m])
    OBVIOUS
  <2>2. m + 1 \in CommandIds
    BY <2>1, <1>3 DEF CommandIds
  <2>3. C[m + 1] = IF m + 1 \in ids THEN Answer(C[m], m + 1, i) ELSE C[m]
    BY <1>4, <2>1
  <2> QED BY <2>1, <2>2, <2>3, AnswerSane
<1> HIDE DEF S
<1>7. S = Nat
  <2>1. S \in SUBSET Nat BY DEF S
  <2> QED BY <1>5, <1>6, <2>1, Induction
<1>8. Sane(C[n])
  BY <1>7 DEF S
<1> QED BY <1>1, <1>3, <1>8, ReplayIsCourse

-----------------------------------------------------------------------------
(* What a run plans. *)

\* A restriction a run is to post: it runs, and agrees with the others.
FitToPost(r) ==
    /\ r \in Restriction
    /\ clock < r.until /\ r.until <= clock + Cooldown
    /\ \A k \in DOMAIN bot :
          (Restricted(k) /\ bot[k].restriction.actor = r.actor /\ bot[k].restriction.until > clock)
             => bot[k].restriction.until = r.until

\* A restriction that replay repeats is fit to be posted.
LEMMA RepeatedIsFit ==
    ASSUME TypeOK, Dated, CooldownNotExtended, NEW k \in DOMAIN bot,
           Restricted(k), bot[k].restriction.until > clock,
           NEW r, r = [bot[k].restriction EXCEPT !.notified = TRUE]
    PROVE  FitToPost(r)
<1>1. PICK q \in Restriction : q = bot[k].restriction
  BY PostTypes
<1>2. r \in Restriction /\ r.actor = q.actor /\ r.until = q.until
  BY <1>1 DEF Restriction
<1>3. clock \in Nat /\ bot[k].at \in Nat /\ q.until \in Nat
  BY <1>1, PostTypes, RestrictionTypes, ParameterTypes DEF TypeOK
<1>4. q.until <= bot[k].at + Cooldown /\ bot[k].at <= clock
  BY <1>1 DEF Dated
<1>5. r.until <= clock + Cooldown
  BY <1>2, <1>3, <1>4, ParameterTypes
<1>6. \A m \in DOMAIN bot :
         (Restricted(m) /\ bot[m].restriction.actor = r.actor /\ bot[m].restriction.until > clock)
            => bot[m].restriction.until = r.until
  BY <1>1, <1>2, OneEnd
<1> QED BY <1>1, <1>2, <1>5, <1>6 DEF FitToPost

\* Whoever is sanctioned was not restricted; nobody's cooldown is extended.
LEMMA SanctionIsFit ==
    ASSUME TypeOK, Dated, CooldownNotExtended, NEW i, NEW s, Sane(s),
           NEW r, r = Sanction(i, s), r # None
    PROVE  FitToPost(r)
<1> DEFINE over == {d \in s.fresh :
                      /\ RecentCount(i, s.fresh, commands[d].actor) >= Threshold
                      /\ ActiveRestriction(commands[d].actor, Restrictions(i)) = None}
           First(d) == \A e \in ByActor(over, commands[d].actor) : d <= e
           firsts == {d \in over : First(d)}
<1>1. r = IF over = {} THEN s.restriction
          ELSE [actor |-> commands[Max(firsts)].actor, until |-> clock + Cooldown, notified |-> FALSE]
  BY DEF Sanction
<1>2. s.fresh \subseteq CommandIds
  BY DEF Sane, Replayed
<1>3. CASE over = {}
  <2>1. r = s.restriction
    BY <1>1, <1>3
  <2> QED BY <2>1, RepeatedIsFit DEF Sane
<1>4. CASE over # {}
  <2>1. over \subseteq CommandIds /\ over \in SUBSET Nat
    BY <1>2, CommandTypes
  <2>2. PICK d \in over : \A e \in over : d <= e
    <3> HIDE DEF over
    <3> QED BY <1>4, <2>1, MinIsLeast
  <2>3. d \in firsts
    BY <2>2 DEF ByActor
  <2>4. firsts \subseteq over /\ firsts # {} /\ firsts \in SUBSET Nat
    BY <2>1, <2>3
  <2>5. \A m \in firsts : m <= Len(commands)
    BY <2>1, <2>4 DEF CommandIds
  <2>6. Max(firsts) \in over
    <3> HIDE DEF firsts, over
    <3> QED BY <2>4, <2>5, MaxIsGreatest, CommandTypes
  <2>7. PICK m \in over : m = Max(firsts)
    BY <2>6
  <2>8. m \in CommandIds /\ ActiveRestriction(commands[m].actor, Restrictions(i)) = None
    BY <2>1
  <2>9. ~ Barred(commands[m].actor) /\ commands[m].actor \in Actor
    BY <2>8, ActiveIs, CommandTypes
  <2>10. r = [actor |-> commands[m].actor, until |-> clock + Cooldown, notified |-> FALSE]
    BY <1>1, <1>4, <2>7
  <2>11. clock \in 0 .. Horizon
    BY DEF TypeOK
  <2>12. r \in Restriction /\ clock < r.until
    BY <2>9, <2>10, <2>11, ParameterTypes DEF Restriction
  <2>13. r.until = clock + Cooldown /\ r.until <= clock + Cooldown
    BY <2>10, <2>11, ParameterTypes
  <2>14. \A k \in DOMAIN bot :
            (Restricted(k) /\ bot[k].restriction.actor = r.actor /\ bot[k].restriction.until > clock)
               => bot[k].restriction.until = r.until
    BY <2>9, <2>10 DEF Barred
  <2> QED BY <2>12, <2>13, <2>14 DEF FitToPost
<1> QED BY <1>3, <1>4

\* A plan is typed, and fit to be posted.
LEMMA PlanIsFit ==
    ASSUME TypeOK, Dated, CooldownNotExtended, NEW c \in CommandIds,
           NEW p, p = Plan(commands[c].issue, c)
    PROVE  /\ p \in Plans
           /\ p.restriction # None => FitToPost(p.restriction)
           /\ \A d \in p.transitions : commands[d].verb = "claim" => ~ Barred(commands[d].actor)
<1>1. PICK i \in Issue : i = commands[c].issue
  BY CommandTypes
<1>2. PICK s : s = Replay(i, c)
  OBVIOUS
<1>3. PICK r : r = Sanction(i, s)
  OBVIOUS
<1>4. Sane(s) /\ s \in Replayed
  BY <1>2, ReplaySane DEF Sane
<1>5. r # None => FitToPost(r)
  BY <1>3, <1>4, SanctionIsFit
<1>6. r \in Restriction \union {None}
  BY <1>5 DEF FitToPost
<1>7. claimed[i] \in BOOLEAN
  BY <1>1 DEF TypeOK
<1>8. PICK a \in BOOLEAN : a = (s.claimant # None /\ ~ claimed[i])
  OBVIOUS
<1>9. PICK m \in BOOLEAN : m = (s.claimant = None /\ claimed[i] /\ s.authorized)
  OBVIOUS
<1>10. PICK b \in BOOLEAN : b = ~ s.blocked
  OBVIOUS
<1>11. p = [stage |-> "receipt", issue |-> i, command |-> c, persist |-> b, post |-> s.post,
            state |-> [claimant |-> s.claimant, through |-> s.through],
            transitions |-> s.fresh, restriction |-> r, add |-> a, remove |-> m]
  BY <1>1, <1>2, <1>3, <1>8, <1>9, <1>10 DEF Plan
<1>12. [claimant |-> s.claimant, through |-> s.through] \in State
  BY <1>4 DEF Replayed, State
<1>13. s.post \in BOOLEAN /\ s.fresh \subseteq CommandIds
  BY <1>4 DEF Replayed
<1>14. p \in Plans
  BY <1>6, <1>11, <1>12, <1>13 DEF Plans
<1>15. p.restriction = r /\ p.transitions = s.fresh
  BY <1>11
<1> QED BY <1>4, <1>5, <1>14, <1>15 DEF Sane

-----------------------------------------------------------------------------
(* What the steps do. *)

\* The comments so far stay, and a step of a run adds at most one.
LEMMA PostedAtEnd ==
    ASSUME TypeOK, NEW e, bot' = Append(bot, e)
    PROVE  /\ Len(bot) \in Nat /\ Len(bot') = Len(bot) + 1
           /\ DOMAIN bot = 1 .. Len(bot) /\ DOMAIN bot' = 1 .. (Len(bot) + 1)
           /\ \A k \in DOMAIN bot : bot'[k] = bot[k]
           /\ bot'[Len(bot) + 1] = e
           /\ \A k \in DOMAIN bot' : k \in DOMAIN bot \/ k = Len(bot) + 1
<1>1. bot \in Seq(BotComment) /\ Len(bot) \in Nat /\ DOMAIN bot = 1 .. Len(bot)
  BY DEF TypeOK
<1>2. Len(bot') = Len(bot) + 1 /\ DOMAIN bot' = 1 .. (Len(bot) + 1)
  BY <1>1
<1>3. bot'[Len(bot) + 1] = e /\ \A k \in DOMAIN bot : bot'[k] = bot[k]
  BY <1>1
<1> QED BY <1>1, <1>2, <1>3

\* A user's comment joins the commands; the others keep their ids.
LEMMA CommentEffect ==
    ASSUME TypeOK, NEW c \in Commands, Comment(c)
    PROVE  /\ commands' \in Seq(UserComment) /\ Len(commands') <= MaxCommands
           /\ Len(commands') = Len(commands) + 1
           /\ \A d \in CommandIds : commands'[d] = commands[d]
           /\ CommandIds \subseteq CommandIds' /\ pending' \subseteq CommandIds'
<1>1. commands \in Seq(UserComment) /\ Len(commands) \in Nat /\ Len(commands) < MaxCommands
  BY DEF TypeOK, Comment
<1>2. PICK e : e = [issue |-> c.issue, actor |-> c.actor, verb |-> c.verb, open |-> open[c.issue]]
  OBVIOUS
<1>3. commands' = Append(commands, e)
  BY <1>2 DEF Comment
<1>4. c.issue \in Issue /\ c.actor \in Actor /\ c.verb \in {"claim", "unclaim"}
  BY ClaimAssumption
<1>5. open[c.issue] \in BOOLEAN
  BY <1>4 DEF TypeOK
<1>6. e \in UserComment
  BY <1>2, <1>4, <1>5 DEF UserComment
<1>7. commands' \in Seq(UserComment) /\ Len(commands') = Len(commands) + 1
  BY <1>1, <1>3, <1>6
<1>8. \A d \in 1 .. Len(commands) : commands'[d] = commands[d]
  BY <1>1, <1>3
<1>9. pending' \subseteq 1 .. (Len(commands) + 1)
  <2>1. pending' = pending \union {Len(commands) + 1}
    BY DEF Comment
  <2>2. pending \subseteq 1 .. Len(commands)
    BY DEF TypeOK, CommandIds
  <2>3. PICK n \in Nat : n = Len(commands)
    BY <1>1
  <2>4. 1 .. n \subseteq 1 .. (n + 1) /\ n + 1 \in 1 .. (n + 1)
    OBVIOUS
  <2> QED BY <2>1, <2>2, <2>3, <2>4
<1> QED BY <1>1, <1>7, <1>8, <1>9, ParameterTypes DEF CommandIds

\* Commands are never changed, and only added.
LEMMA CommandsGrow ==
    ASSUME TypeOK, [Next]_vars
    PROVE  /\ CommandIds \subseteq CommandIds'
           /\ \A d \in CommandIds : commands'[d] = commands[d]
<1>1. CASE \E c \in Commands : Comment(c)
  BY <1>1, CommentEffect
<1>2. CASE ~ \E c \in Commands : Comment(c)
  <2>1. commands' = commands
    BY <1>2 DEF Next, vars, queue, Triage, Tick, Start, PersistReceipt, Checkpoint, ApplyLabel, Stop
  <2> QED BY <2>1 DEF CommandIds
<1> QED BY <1>1, <1>2

\* A run in progress has a plan.
LEMMA RunTypes ==
    ASSUME TypeOK, run # Idle
    PROVE  /\ run \in Plans /\ run.stage \in {"receipt", "checkpoint", "label"}
           /\ run.issue \in Issue /\ run.command \in CommandIds
           /\ run.persist \in BOOLEAN /\ run.post \in BOOLEAN
           /\ run.state \in State /\ run.transitions \subseteq CommandIds
           /\ run.restriction \in Restriction \union {None}
           /\ run.add \in BOOLEAN /\ run.remove \in BOOLEAN
<1>1. run \in Plans
  BY DEF TypeOK
<1> QED BY <1>1 DEF Plans

\* A run that has a stage to take is not idle.
LEMMA StageIsRun ==
    ASSUME run.stage # "idle"
    PROVE  run # Idle
BY DEF Idle

\* What a run posts first: the receipt of its command, if it is to be kept.
LEMMA PersistEffect ==
    ASSUME TypeOK, PersistReceipt
    PROVE  /\ run # Idle /\ run.stage = "receipt"
           /\ run' = [run EXCEPT !.stage = "checkpoint"] /\ run' # Idle /\ run' \in Plans
           /\ run'.stage = "checkpoint" /\ run'.issue = run.issue /\ run'.command = run.command
           /\ run'.persist = run.persist /\ run'.post = run.post /\ run'.state = run.state
           /\ run'.transitions = run.transitions /\ run'.restriction = run.restriction
           /\ run'.add = run.add /\ run'.remove = run.remove
           /\ UNCHANGED <<commands, clock, claimed, settled>>
           /\ ~ run.persist => bot' = bot
           /\ run.persist => \E e \in BotComment :
                 /\ bot' = Append(bot, e)
                 /\ e.issue = run.issue /\ e.at = clock /\ e.receipt = run.command
                 /\ e.state = None /\ e.transitions = {} /\ e.restriction = None
<1>1. run # Idle /\ run.stage = "receipt" /\ run' = [run EXCEPT !.stage = "checkpoint"]
  BY StageIsRun DEF PersistReceipt
<1>2. run \in Plans /\ run.issue \in Issue /\ run.command \in CommandIds /\ run.persist \in BOOLEAN
  BY <1>1, RunTypes
<1>3. PICK p : p = run'
  OBVIOUS
<1>4. /\ p \in Plans
      /\ p.stage = "checkpoint" /\ p.issue = run.issue /\ p.command = run.command
      /\ p.persist = run.persist /\ p.post = run.post /\ p.state = run.state
      /\ p.transitions = run.transitions /\ p.restriction = run.restriction
      /\ p.add = run.add /\ p.remove = run.remove
  BY <1>1, <1>2, <1>3 DEF Plans
<1>5. p # Idle
  BY <1>4 DEF Idle
<1>6. ASSUME run.persist
      PROVE  \E e \in BotComment :
                 /\ bot' = Append(bot, e)
                 /\ e.issue = run.issue /\ e.at = clock /\ e.receipt = run.command
                 /\ e.state = None /\ e.transitions = {} /\ e.restriction = None
  <2>1. PICK e : e = [Posted EXCEPT !.receipt = run.command]
    OBVIOUS
  <2>2. e = [issue |-> run.issue, at |-> clock, receipt |-> run.command, state |-> None,
             transitions |-> {}, restriction |-> None]
    BY <2>1 DEF Posted
  <2>3. clock \in 0 .. Horizon
    BY DEF TypeOK
  <2>4. e \in BotComment
    BY <1>2, <2>2, <2>3 DEF BotComment
  <2>5. bot' = Append(bot, e)
    BY <1>6, <2>1 DEF PersistReceipt
  <2> QED BY <2>2, <2>4, <2>5
<1>7. ~ run.persist => bot' = bot
  BY DEF PersistReceipt
<1>8. UNCHANGED <<commands, clock, claimed, settled>>
  BY DEF PersistReceipt, queue
<1> QED BY <1>1, <1>3, <1>4, <1>5, <1>6, <1>7, <1>8

\* What a run posts next: the checkpoint, unless it was posted before.
LEMMA CheckpointEffect ==
    ASSUME TypeOK, Checkpoint
    PROVE  /\ run # Idle /\ run.stage = "checkpoint"
           /\ run' = [run EXCEPT !.stage = "label"] /\ run' # Idle /\ run' \in Plans
           /\ run'.stage = "label" /\ run'.issue = run.issue /\ run'.command = run.command
           /\ run'.persist = run.persist /\ run'.post = run.post /\ run'.state = run.state
           /\ run'.transitions = run.transitions /\ run'.restriction = run.restriction
           /\ run'.add = run.add /\ run'.remove = run.remove
           /\ UNCHANGED <<commands, clock, claimed, settled>>
           /\ ~ run.post => bot' = bot
           /\ run.post => \E e \in BotComment :
                 /\ bot' = Append(bot, e)
                 /\ e.issue = run.issue /\ e.at = clock /\ e.receipt = None
                 /\ e.state = run.state /\ e.transitions = run.transitions
                 /\ e.restriction = run.restriction
<1>1. run # Idle /\ run.stage = "checkpoint" /\ run' = [run EXCEPT !.stage = "label"]
  BY StageIsRun DEF Checkpoint
<1>2. /\ run \in Plans /\ run.issue \in Issue /\ run.post \in BOOLEAN
      /\ run.state \in State /\ run.transitions \subseteq CommandIds
      /\ run.restriction \in Restriction \union {None}
  BY <1>1, RunTypes
<1>3. PICK p : p = run'
  OBVIOUS
<1>4. /\ p \in Plans
      /\ p.stage = "label" /\ p.issue = run.issue /\ p.command = run.command
      /\ p.persist = run.persist /\ p.post = run.post /\ p.state = run.state
      /\ p.transitions = run.transitions /\ p.restriction = run.restriction
      /\ p.add = run.add /\ p.remove = run.remove
  BY <1>1, <1>2, <1>3 DEF Plans
<1>5. p # Idle
  BY <1>4 DEF Idle
<1>6. ASSUME run.post
      PROVE  \E e \in BotComment :
                 /\ bot' = Append(bot, e)
                 /\ e.issue = run.issue /\ e.at = clock /\ e.receipt = None
                 /\ e.state = run.state /\ e.transitions = run.transitions
                 /\ e.restriction = run.restriction
  <2>1. PICK e : e = [Posted EXCEPT !.state = run.state, !.transitions = run.transitions,
                                    !.restriction = run.restriction]
    OBVIOUS
  <2>2. e = [issue |-> run.issue, at |-> clock, receipt |-> None, state |-> run.state,
             transitions |-> run.transitions, restriction |-> run.restriction]
    BY <2>1 DEF Posted
  <2>3. clock \in 0 .. Horizon
    BY DEF TypeOK
  <2>4. e \in BotComment
    BY <1>2, <2>2, <2>3 DEF BotComment
  <2>5. bot' = Append(bot, e)
    BY <1>6, <2>1 DEF Checkpoint
  <2> QED BY <2>2, <2>4, <2>5
<1>7. ~ run.post => bot' = bot
  BY DEF Checkpoint
<1>8. UNCHANGED <<commands, clock, claimed, settled>>
  BY DEF Checkpoint, queue
<1> QED BY <1>1, <1>3, <1>4, <1>5, <1>6, <1>7, <1>8

\* Starting a run plans it and changes nothing else that is read.
LEMMA StartEffect ==
    ASSUME TypeOK, NEW c \in pending \union failed, Start(c)
    PROVE  /\ c \in CommandIds /\ run = Idle
           /\ run' = Plan(commands[c].issue, c)
           /\ pending' \subseteq pending /\ failed' \subseteq failed
           /\ settled' = settled \ {commands[c].issue}
           /\ UNCHANGED <<commands, bot, claimed, open, clock, failures>>
BY DEF Start, TypeOK

\* The types of a typed history survive new commands.
LEMMA TypesGrow ==
    ASSUME TypeOK, CommandIds \subseteq CommandIds'
    PROVE  /\ bot \in Seq(BotComment') /\ BotComment \subseteq BotComment'
           /\ Plans \subseteq Plans' /\ run \in {Idle} \union Plans'
           /\ pending \subseteq CommandIds' /\ failed \subseteq CommandIds'
<1>1. BotComment \subseteq BotComment'
  BY DEF BotComment
<1>2. Plans \subseteq Plans'
  BY DEF Plans
<1>3. bot \in Seq(BotComment')
  <2>1. bot \in Seq(BotComment)
    BY DEF TypeOK
  <2> QED BY <1>1, <2>1
<1>4. run \in {Idle} \union Plans /\ pending \subseteq CommandIds /\ failed \subseteq CommandIds
  BY DEF TypeOK
<1> QED BY <1>1, <1>2, <1>3, <1>4

\* The first state is typed.
LEMMA TypeInit == Init => TypeOK
<1> SUFFICES ASSUME Init PROVE TypeOK
  OBVIOUS
<1>1. /\ commands = <<>> /\ pending = {} /\ bot = <<>> /\ clock = 0 /\ run = Idle
      /\ failed = {} /\ failures = 0 /\ settled = {}
      /\ claimed = [i \in Issue |-> i \in Labelled] /\ open = [i \in Issue |-> TRUE]
  BY DEF Init
<1>2. commands \in Seq(UserComment) /\ Len(commands) <= MaxCommands /\ bot \in Seq(BotComment)
  BY <1>1, ParameterTypes
<1>3. claimed \in [Issue -> BOOLEAN] /\ open \in [Issue -> BOOLEAN]
  BY <1>1
<1>4. clock \in 0 .. Horizon /\ failures \in 0 .. MaxFailures
  BY <1>1, ParameterTypes
<1> QED BY <1>1, <1>2, <1>3, <1>4 DEF TypeOK

\* Every step keeps the types; a plan is typed because no cooldown is extended.
LEMMA TypeNext ==
    ASSUME TypeOK, Dated, CooldownNotExtended, [Next]_vars
    PROVE  TypeOK'
<1>1. CASE \E c \in Commands : Comment(c)
  <2>1. PICK c \in Commands : Comment(c)
    BY <1>1
  <2>2. /\ commands' \in Seq(UserComment) /\ Len(commands') <= MaxCommands
        /\ CommandIds \subseteq CommandIds' /\ pending' \subseteq CommandIds'
    BY <2>1, CommentEffect
  <2>3. UNCHANGED <<bot, claimed, open, clock, run, failed, failures, settled>>
    BY <2>1 DEF Comment
  <2>4. bot' \in Seq(BotComment') /\ run' \in {Idle} \union Plans' /\ failed' \subseteq CommandIds'
    BY <2>2, <2>3, TypesGrow
  <2>5. /\ claimed' \in [Issue -> BOOLEAN] /\ settled' \subseteq Issue
        /\ open' \in [Issue -> BOOLEAN] /\ clock' \in 0 .. Horizon /\ failures' \in 0 .. MaxFailures
    BY <2>3 DEF TypeOK
  <2> QED BY <2>2, <2>4, <2>5 DEF TypeOK, UserComment
<1>2. CASE commands' = commands
  <2>1. CommandIds' = CommandIds
    BY <1>2 DEF CommandIds
  <2>2. BotComment' = BotComment /\ Plans' = Plans
    BY <2>1 DEF BotComment, Plans
  <2>3. commands' \in Seq(UserComment) /\ Len(commands') <= MaxCommands
    BY <1>2 DEF TypeOK
  <2> DEFINE Rest == /\ pending' \subseteq CommandIds /\ failed' \subseteq CommandIds
                     /\ bot' \in Seq(BotComment)
                     /\ claimed' \in [Issue -> BOOLEAN] /\ settled' \subseteq Issue
                     /\ open' \in [Issue -> BOOLEAN]
                     /\ clock' \in 0 .. Horizon /\ failures' \in 0 .. MaxFailures
                     /\ run' \in {Idle} \union Plans
  <2>4. SUFFICES Rest
    BY <2>1, <2>2, <2>3 DEF TypeOK, UserComment
  <2>5. /\ pending \subseteq CommandIds /\ failed \subseteq CommandIds
        /\ bot \in Seq(BotComment)
        /\ claimed \in [Issue -> BOOLEAN] /\ settled \subseteq Issue
        /\ open \in [Issue -> BOOLEAN]
        /\ clock \in 0 .. Horizon /\ failures \in 0 .. MaxFailures
        /\ run \in {Idle} \union Plans
    BY DEF TypeOK
  <2>6. CASE \E c \in Commands : Comment(c)
    <3>1. PICK c \in Commands : Comment(c)
      BY <2>6
    <3> QED BY <3>1, <1>2, CommentEffect DEF TypeOK
  <2>7. CASE \E i \in Issue : Triage(i)
    BY <2>5, <2>7 DEF Triage, queue
  <2>8. CASE Tick
    BY <2>5, <2>8, ParameterTypes DEF Tick, queue
  <2>9. CASE \E c \in pending \union failed : Start(c)
    <3>1. PICK c \in pending \union failed : Start(c)
      BY <2>9
    <3>2. PICK p : p = Plan(commands[c].issue, c)
      OBVIOUS
    <3>3. p \in Plans
      BY <3>1, <3>2, StartEffect, PlanIsFit
    <3>4. /\ run' = p /\ pending' \subseteq pending /\ failed' \subseteq failed
          /\ settled' \subseteq settled
          /\ UNCHANGED <<bot, claimed, open, clock, failures>>
      BY <3>1, <3>2, StartEffect
    <3> QED BY <2>5, <3>3, <3>4
  <2>10. CASE PersistReceipt
    <3>1. run' \in Plans /\ (bot' = bot \/ \E e \in BotComment : bot' = Append(bot, e))
      BY <2>2, <2>10, PersistEffect DEF Plans
    <3>2. bot' \in Seq(BotComment)
      BY <2>5, <3>1
    <3> QED BY <2>5, <2>10, <3>1, <3>2 DEF PersistReceipt, queue
  <2>11. CASE Checkpoint
    <3>1. run' \in Plans /\ (bot' = bot \/ \E e \in BotComment : bot' = Append(bot, e))
      BY <2>2, <2>11, CheckpointEffect DEF Plans
    <3>2. bot' \in Seq(BotComment)
      BY <2>5, <3>1
    <3> QED BY <2>5, <2>11, <3>1, <3>2 DEF Checkpoint, queue
  <2>12. CASE ApplyLabel
    <3>1. run # Idle
      BY <2>12, StageIsRun DEF ApplyLabel
    <3>2. run.issue \in Issue /\ run.add \in BOOLEAN /\ run.remove \in BOOLEAN
      BY <3>1, RunTypes
    <3>3. /\ claimed' = [claimed EXCEPT ![run.issue] = (@ \/ run.add) /\ ~ run.remove]
          /\ settled' = settled \union {run.issue} /\ run' = Idle
          /\ UNCHANGED <<queue, bot, open, clock, failed, failures>>
      BY <2>12 DEF ApplyLabel
    <3>4. PICK b : b = ((claimed[run.issue] \/ run.add) /\ ~ run.remove)
      OBVIOUS
    <3>5. b \in BOOLEAN
      BY <3>4
    <3>6. claimed' = [claimed EXCEPT ![run.issue] = b]
      BY <2>5, <3>2, <3>3, <3>4
    <3>7. claimed' \in [Issue -> BOOLEAN]
      BY <2>5, <3>2, <3>5, <3>6
    <3> QED BY <2>5, <3>2, <3>3, <3>7 DEF queue
  <2>13. CASE Stop
    <3>1. run.command \in CommandIds
      BY <2>13, RunTypes DEF Stop
    <3> QED BY <2>5, <2>13, <3>1, ParameterTypes DEF Stop, queue
  <2>14. CASE UNCHANGED vars
    BY <2>5, <2>14 DEF vars
  <2> QED BY <2>6, <2>7, <2>8, <2>9, <2>10, <2>11, <2>12, <2>13, <2>14 DEF Next
<1>3. (\E c \in Commands : Comment(c)) \/ commands' = commands
  BY DEF Next, vars, queue, Triage, Tick, Start, PersistReceipt, Checkpoint, ApplyLabel, Stop
<1> QED BY <1>1, <1>2, <1>3

-----------------------------------------------------------------------------
(* Restrictions: CooldownInv is inductive. *)

\* Nothing has been posted at first.
LEMMA CooldownInit == Init => CooldownInv
<1> SUFFICES ASSUME Init PROVE CooldownInv
  OBVIOUS
<1>1. bot = <<>> /\ run = Idle /\ DOMAIN bot = {}
  BY DEF Init
<1>2. run.stage = "idle"
  BY <1>1 DEF Idle
<1> QED BY <1>1, <1>2, TypeInit DEF CooldownInv, OnIssue, Dated, CooldownNotExtended, InHand

\* Receipts stay with the commands of their issue.
LEMMA OnIssueNext ==
    ASSUME CooldownInv, [Next]_vars
    PROVE  OnIssue'
<1> USE DEF CooldownInv
<1>1. \A d \in CommandIds : commands'[d] = commands[d]
  BY CommandsGrow
<1>2. \A k \in DOMAIN bot : bot[k].receipt # None => bot[k].receipt \in CommandIds
  BY PostTypes
<1>3. run # Idle => run.command \in CommandIds
  BY RunTypes
<1>4. OnIssue
  OBVIOUS
<1>5. CASE bot' = bot /\ (run' = run \/ run' = Idle)
  BY <1>1, <1>2, <1>3, <1>4, <1>5 DEF OnIssue
<1>6. CASE \E c \in pending \union failed : Start(c)
  <2>1. PICK c \in pending \union failed : Start(c)
    BY <1>6
  <2>2. run' = Plan(commands[c].issue, c) /\ bot' = bot /\ commands' = commands
    BY <2>1, StartEffect
  <2>3. PICK p : p = Plan(commands[c].issue, c)
    OBVIOUS
  <2>4. p.command = c /\ p.issue = commands[c].issue
    BY <2>3 DEF Plan
  <2> QED BY <1>4, <2>2, <2>3, <2>4 DEF OnIssue
<1>7. CASE PersistReceipt
  <2>1. /\ run # Idle /\ run'.command = run.command /\ run'.issue = run.issue
        /\ commands' = commands
    BY <1>7, PersistEffect
  <2>2. bot' = bot \/ \E e : bot' = Append(bot, e) /\ e.issue = run.issue /\ e.receipt = run.command
    BY <1>7, PersistEffect, RunTypes
  <2>3. CASE bot' = bot
    BY <1>4, <2>1, <2>3 DEF OnIssue
  <2>4. CASE bot' # bot
    <3>1. PICK e : bot' = Append(bot, e) /\ e.issue = run.issue /\ e.receipt = run.command
      BY <2>2, <2>4
    <3> QED BY <1>4, <2>1, <3>1, PostedAtEnd DEF OnIssue
  <2> QED BY <2>3, <2>4
<1>8. CASE Checkpoint
  <2>1. /\ run # Idle /\ run'.command = run.command /\ run'.issue = run.issue
        /\ commands' = commands
    BY <1>8, CheckpointEffect
  <2>2. bot' = bot \/ \E e : bot' = Append(bot, e) /\ e.receipt = None
    BY <1>8, CheckpointEffect, RunTypes
  <2>3. CASE bot' = bot
    BY <1>4, <2>1, <2>3 DEF OnIssue
  <2>4. CASE bot' # bot
    <3>1. PICK e : bot' = Append(bot, e) /\ e.receipt = None
      BY <2>2, <2>4
    <3> QED BY <1>4, <2>1, <3>1, PostedAtEnd DEF OnIssue
  <2> QED BY <2>3, <2>4
<1>9. CASE ~ (PersistReceipt \/ Checkpoint \/ \E c \in pending \union failed : Start(c))
  <2>1. bot' = bot /\ (run' = run \/ run' = Idle)
    BY <1>9 DEF Next, vars, queue, Comment, Triage, Tick, ApplyLabel, Stop
  <2> QED BY <2>1, <1>5
<1> QED BY <1>6, <1>7, <1>8, <1>9

\* A comment keeps the dates in order, if its restriction is fit to be posted.
LEMMA PostKeepsDates ==
    ASSUME TypeOK, Dated, CooldownNotExtended, NEW e \in BotComment,
           bot' = Append(bot, e), clock' = clock, e.at = clock,
           e.restriction # None => FitToPost(e.restriction)
    PROVE  Dated' /\ CooldownNotExtended'
<1> DEFINE last == Len(bot) + 1
<1>1. /\ DOMAIN bot' = 1 .. last /\ DOMAIN bot = 1 .. Len(bot) /\ Len(bot) \in Nat
      /\ bot'[last] = e
      /\ \A k \in DOMAIN bot : bot'[k] = bot[k]
      /\ \A k \in DOMAIN bot' : k \in DOMAIN bot \/ k = last
  BY PostedAtEnd
<1> HIDE DEF last
<1>2. clock \in Nat
  BY ParameterTypes DEF TypeOK
<1>3. Dated'
  <2> SUFFICES ASSUME NEW k \in DOMAIN bot'
               PROVE  /\ bot'[k].at <= clock
                      /\ bot'[k].restriction # None =>
                            /\ bot'[k].at < bot'[k].restriction.until
                            /\ bot'[k].restriction.until <= bot'[k].at + Cooldown
    BY DEF Dated, Restricted
  <2>1. CASE k \in DOMAIN bot
    BY <1>1, <2>1 DEF Dated, Restricted
  <2>2. CASE k = last
    BY <1>1, <1>2, <2>2 DEF FitToPost
  <2> QED BY <1>1, <2>1, <2>2
<1>4. CooldownNotExtended'
  <2> SUFFICES ASSUME NEW k \in DOMAIN bot', NEW m \in DOMAIN bot',
                      bot'[k].restriction # None, bot'[m].restriction # None, k < m,
                      bot'[k].restriction.actor = bot'[m].restriction.actor,
                      bot'[k].restriction.until # bot'[m].restriction.until
               PROVE  bot'[m].at >= bot'[k].restriction.until
    BY DEF CooldownNotExtended
  <2>1. k \in DOMAIN bot
    BY <1>1 DEF last
  <2>2. CASE m \in DOMAIN bot
    BY <1>1, <2>1, <2>2 DEF CooldownNotExtended
  <2>3. CASE m = last
    <3>1. FitToPost(e.restriction) /\ bot'[m] = e /\ bot'[k] = bot[k] /\ Restricted(k)
      BY <1>1, <2>1, <2>3 DEF Restricted
    <3>2. ~ (bot[k].restriction.until > clock)
      BY <2>1, <3>1 DEF FitToPost
    <3>3. bot[k].restriction.until \in Nat
      BY <2>1, <3>1, PostTypes, RestrictionTypes
    <3> QED BY <1>2, <3>1, <3>2, <3>3
  <2> QED BY <1>1, <2>2, <2>3
<1> QED BY <1>3, <1>4

\* What is in hand is fit to be posted.
LEMMA InHandIsFit ==
    ASSUME CooldownInv, run.stage \in {"receipt", "checkpoint"}
    PROVE  run.restriction # None => FitToPost(run.restriction)
<1>1. RestrictionInHand /\ run # Idle
  BY StageIsRun DEF CooldownInv, InHand
<1>2. run.restriction \in Restriction \union {None}
  BY <1>1, RunTypes DEF CooldownInv
<1> QED BY <1>1, <1>2 DEF RestrictionInHand, FitToPost

\* Dates stay in order, and no cooldown is extended.
LEMMA DatesNext ==
    ASSUME CooldownInv, [Next]_vars
    PROVE  Dated' /\ CooldownNotExtended'
<1>1. TypeOK /\ Dated /\ CooldownNotExtended
  BY DEF CooldownInv
<1>2. clock \in Nat
  BY <1>1, ParameterTypes DEF TypeOK
<1>3. CASE bot' = bot /\ clock' \in {clock, clock + 1}
  <2>1. \A k \in DOMAIN bot : bot[k].at \in Nat
    BY <1>1, PostTypes
  <2>2. clock' \in Nat /\ clock <= clock'
    BY <1>2, <1>3
  <2>3. Dated'
    BY <1>1, <1>2, <1>3, <2>1, <2>2 DEF Dated, Restricted
  <2>4. CooldownNotExtended'
    BY <1>1, <1>3 DEF CooldownNotExtended
  <2> QED BY <2>3, <2>4
<1>4. CASE PersistReceipt
  <2>1. CASE run.persist
    <3>1. PICK e \in BotComment : bot' = Append(bot, e) /\ e.at = clock /\ e.restriction = None
      BY <1>1, <1>4, <2>1, PersistEffect
    <3>2. clock' = clock
      BY <1>1, <1>4, PersistEffect
    <3> QED BY <1>1, <3>1, <3>2, PostKeepsDates
  <2>2. CASE ~ run.persist
    BY <1>1, <1>3, <1>4, <2>2, PersistEffect
  <2> QED BY <2>1, <2>2
<1>5. CASE Checkpoint
  <2>1. CASE run.post
    <3>1. PICK e \in BotComment : bot' = Append(bot, e) /\ e.at = clock /\ e.restriction = run.restriction
      BY <1>1, <1>5, <2>1, CheckpointEffect
    <3>2. clock' = clock /\ run.stage = "checkpoint"
      BY <1>1, <1>5, CheckpointEffect
    <3>3. e.restriction # None => FitToPost(e.restriction)
      BY <3>1, <3>2, InHandIsFit
    <3> QED BY <1>1, <3>1, <3>2, <3>3, PostKeepsDates
  <2>2. CASE ~ run.post
    BY <1>1, <1>3, <1>5, <2>2, CheckpointEffect
  <2> QED BY <2>1, <2>2
<1>6. CASE ~ (PersistReceipt \/ Checkpoint)
  <2>1. bot' = bot /\ clock' \in {clock, clock + 1}
    BY <1>6 DEF Next, vars, queue, Comment, Triage, Start, Tick, ApplyLabel, Stop
  <2> QED BY <2>1, <1>3
<1> QED BY <1>4, <1>5, <1>6

\* What a run has in hand stays fit until it is posted: the clock stands, and
\* nobody else posts.
LEMMA InHandNext ==
    ASSUME CooldownInv, [Next]_vars
    PROVE  InHand'
<1> SUFFICES ASSUME run'.stage \in {"receipt", "checkpoint"}
             PROVE  RestrictionInHand' /\ ClaimsInHand'
  BY DEF InHand
<1>1. TypeOK /\ Dated /\ CooldownNotExtended /\ InHand
  BY DEF CooldownInv
<1>2. \A d \in CommandIds : commands'[d] = commands[d]
  BY <1>1, CommandsGrow
<1>3. CASE run' = run /\ bot' = bot /\ clock' = clock
  <2>1. RestrictionInHand /\ ClaimsInHand /\ run # Idle
    BY <1>1, <1>3, StageIsRun DEF InHand
  <2>2. RestrictionInHand'
    BY <1>3, <2>1 DEF RestrictionInHand, Restricted
  <2>3. run.transitions \subseteq CommandIds
    BY <1>1, <2>1, RunTypes
  <2>4. ClaimsInHand'
    BY <1>2, <1>3, <2>1, <2>3 DEF ClaimsInHand, Barred, Restricted
  <2> QED BY <2>2, <2>4
<1>4. CASE \E c \in pending \union failed : Start(c)
  <2>1. PICK c \in pending \union failed : Start(c)
    BY <1>4
  <2>2. PICK p : p = Plan(commands[c].issue, c)
    OBVIOUS
  <2>3. c \in CommandIds /\ run' = p /\ bot' = bot /\ clock' = clock /\ commands' = commands
    BY <1>1, <2>1, <2>2, StartEffect
  <2>4. /\ p.restriction # None => FitToPost(p.restriction)
        /\ \A d \in p.transitions : commands[d].verb = "claim" => ~ Barred(commands[d].actor)
    BY <1>1, <2>2, <2>3, PlanIsFit
  <2>5. RestrictionInHand'
    BY <2>3, <2>4 DEF RestrictionInHand, FitToPost, Restricted
  <2>6. ClaimsInHand'
    BY <2>3, <2>4 DEF ClaimsInHand, Barred, Restricted
  <2> QED BY <2>5, <2>6
<1>5. CASE PersistReceipt
  <2>1. /\ run.stage = "receipt" /\ clock' = clock /\ commands' = commands
        /\ run'.restriction = run.restriction /\ run'.transitions = run.transitions
    BY <1>1, <1>5, PersistEffect
  <2>2. RestrictionInHand /\ ClaimsInHand
    BY <1>1, <2>1 DEF InHand
  <2>3. CASE bot' = bot
    <3>1. RestrictionInHand'
      BY <2>1, <2>2, <2>3 DEF RestrictionInHand, Restricted
    <3>2. ClaimsInHand'
      BY <2>1, <2>2, <2>3 DEF ClaimsInHand, Barred, Restricted
    <3> QED BY <3>1, <3>2
  <2>4. CASE bot' # bot
    <3>1. PICK e \in BotComment : bot' = Append(bot, e) /\ e.restriction = None
      BY <1>1, <1>5, <2>4, PersistEffect
    <3>2. \A k \in DOMAIN bot' : bot'[k].restriction # None =>
             k \in DOMAIN bot /\ bot'[k] = bot[k] /\ Restricted(k)
      BY <1>1, <3>1, PostedAtEnd DEF Restricted
    <3>3. RestrictionInHand'
      BY <2>1, <2>2, <3>2 DEF RestrictionInHand, Restricted
    <3>4. ClaimsInHand'
      BY <2>1, <2>2, <3>2 DEF ClaimsInHand, Barred, Restricted
    <3> QED BY <3>3, <3>4
  <2> QED BY <2>3, <2>4
<1>6. ~ Checkpoint
  BY <1>1, CheckpointEffect
<1>7. run' # Idle
  BY DEF Idle
<1>8. CASE ~ (PersistReceipt \/ \E c \in pending \union failed : Start(c))
  <2>1. run' = run /\ bot' = bot /\ clock' = clock
    BY <1>6, <1>7, <1>8 DEF Next, vars, queue, Comment, Triage, Tick, ApplyLabel, Stop
  <2> QED BY <2>1, <1>3
<1> QED BY <1>4, <1>5, <1>8

\* CooldownInv is inductive.
LEMMA CooldownStep ==
    ASSUME CooldownInv, [Next]_vars
    PROVE  CooldownInv'
<1>1. TypeOK'
  BY TypeNext DEF CooldownInv
<1> QED BY <1>1, OnIssueNext, DatesNext, InHandNext DEF CooldownInv

\* CooldownInv holds in every reachable state.
LEMMA CooldownAlways == Spec => []CooldownInv
<1>1. CooldownInv /\ [Next]_vars => CooldownInv'
  BY CooldownStep
<1> QED BY <1>1, CooldownInit, PTL DEF Spec

-----------------------------------------------------------------------------
(* The properties of restrictions. *)

\* The variables keep their types, for any issues, actors and commands.
THEOREM ClaimsTypeCorrect == Spec => []TypeOK
BY CooldownAlways, PTL DEF CooldownInv

\* A cooldown is never extended, across issues, repeated runs and runs that
\* stop between two of their comments.
THEOREM CooldownNotExtendedHolds == Spec => []CooldownNotExtended
BY CooldownAlways, PTL DEF CooldownInv

\* An actor whose cooldown runs changes no ownership by a /claim, on any issue.
THEOREM CooldownBlocksHolds == Spec => CooldownBlocks
<1> DEFINE Step == \A k \in DOMAIN bot' \ DOMAIN bot : \A d \in bot'[k].transitions :
                      commands[d].verb = "claim" =>
                          ~ \E m \in DOMAIN bot : /\ bot[m].restriction # None
                                                  /\ bot[m].restriction.actor = commands[d].actor
                                                  /\ bot[m].restriction.until > clock
<1>1. CooldownInv /\ [Next]_vars => Step
  <2> SUFFICES ASSUME CooldownInv, [Next]_vars PROVE Step
    OBVIOUS
  <2>1. TypeOK /\ InHand
    BY DEF CooldownInv
  <2>2. CASE bot' = bot
    BY <2>2
  <2>3. CASE PersistReceipt /\ bot' # bot
    <3>1. PICK e \in BotComment : bot' = Append(bot, e) /\ e.transitions = {}
      BY <2>1, <2>3, PersistEffect
    <3> QED BY <2>1, <3>1, PostedAtEnd
  <2>4. CASE Checkpoint /\ bot' # bot
    <3>1. PICK e \in BotComment : bot' = Append(bot, e) /\ e.transitions = run.transitions
      BY <2>1, <2>4, CheckpointEffect
    <3>2. ClaimsInHand
      BY <2>1, <2>4, CheckpointEffect DEF InHand
    <3>3. \A k \in DOMAIN bot' \ DOMAIN bot : bot'[k].transitions = run.transitions
      BY <2>1, <3>1, PostedAtEnd
    <3> QED BY <3>2, <3>3 DEF ClaimsInHand, Barred, Restricted
  <2>5. CASE ~ (PersistReceipt \/ Checkpoint)
    <3>1. bot' = bot
      BY <2>5 DEF Next, vars, queue, Comment, Triage, Start, Tick, ApplyLabel, Stop
    <3> QED BY <3>1
  <2> QED BY <2>2, <2>3, <2>4, <2>5
<1> HIDE DEF Step
<1>2. Step => [Step]_vars
  OBVIOUS
<1>3. Spec => [][Step]_vars
  BY <1>1, CooldownAlways, PTL DEF Spec
<1> QED BY <1>3 DEF CooldownBlocks, Step

-----------------------------------------------------------------------------
(* What the commands of an issue come to when nobody is restricted. *)

\* Who holds an issue after a command, when nobody is restricted.
OwnerAfter(o, d) ==
    IF commands[d].verb = "claim"
    THEN IF commands[d].open /\ o = None THEN commands[d].actor ELSE o
    ELSE IF commands[d].actor = o \/ commands[d].actor \in Maintainer THEN None ELSE o

\* g says who holds the issue after each command, if those of ids count.
Ownership(g, ids) ==
    /\ g \in [Nat -> Actor \union {None}]
    /\ g[0] = None
    /\ \A d \in Nat \ {0} : g[d] = IF d \in ids THEN OwnerAfter(g[d - 1], d) ELSE g[d - 1]

\* The state is what the commands of ids come to.
ComesTo(ids, s) ==
    /\ s.through \in ids
    /\ \A d \in ids : d <= s.through
    /\ \E g : Ownership(g, ids) /\ g[s.through] = s.claimant

\* The receipts posted on issue i, and those among the first n comments.
Kept(i) == {bot[k].receipt : k \in Comments(i)} \ {None}
ReceiptsIn(i, n) == {bot[k].receipt : k \in {j \in Comments(i) : j <= n}} \ {None}

OpenClaim(d) == commands[d].verb = "claim" /\ commands[d].open

\* Where two sets have the same commands up to t, they say the same up to t.
LEMMA SameOwners ==
    ASSUME NEW f, NEW g, NEW A, NEW B, Ownership(f, A), Ownership(g, B), NEW t \in Nat,
           \A d \in Nat : d <= t => (d \in A <=> d \in B)
    PROVE  f[t] = g[t]
<1> DEFINE S == {d \in Nat : d <= t => f[d] = g[d]}
<1>1. 0 \in S
  BY DEF Ownership
<1>2. ASSUME NEW n \in S PROVE n + 1 \in S
  <2>1. n \in Nat /\ n + 1 \in Nat \ {0} /\ (n + 1) - 1 = n
    OBVIOUS
  <2>2. PICK d \in Nat \ {0} : d = n + 1 /\ d - 1 = n
    BY <2>1
  <2>3. /\ f[d] = IF d \in A THEN OwnerAfter(f[d - 1], d) ELSE f[d - 1]
        /\ g[d] = IF d \in B THEN OwnerAfter(g[d - 1], d) ELSE g[d - 1]
    BY DEF Ownership
  <2>4. d <= t => (d \in A <=> d \in B) /\ f[d - 1] = g[d - 1]
    BY <2>1, <2>2
  <2> QED BY <2>2, <2>3, <2>4
<1> HIDE DEF S
<1>3. S = Nat
  <2>1. S \in SUBSET Nat BY DEF S
  <2> QED BY <1>1, <1>2, <2>1, Induction
<1> QED BY <1>3 DEF S

\* Ownership passes from a holder by a release only.
LEMMA HeldUntilReleased ==
    ASSUME NEW g, NEW ids, Ownership(g, ids), NEW t \in Nat, NEW n \in Nat, t <= n,
           NEW h, h # None, g[t] = h,
           \A d \in ids : d > t => ~ MayRelease(d, h),
           \A d \in ids : commands[d].verb \in {"claim", "unclaim"}
    PROVE  g[n] = h
<1> DEFINE S == {m \in Nat : t <= m => g[m] = h}
<1>1. 0 \in S
  OBVIOUS
<1>2. ASSUME NEW m \in S PROVE m + 1 \in S
  <2>1. PICK d \in Nat \ {0} : d = m + 1 /\ d - 1 = m
    OBVIOUS
  <2>2. g[d] = IF d \in ids THEN OwnerAfter(g[d - 1], d) ELSE g[d - 1]
    BY DEF Ownership
  <2>3. CASE t <= m
    <3>1. g[d - 1] = h /\ d > t
      BY <2>1, <2>3
    <3>2. CASE d \in ids
      <4>1. ~ MayRelease(d, h)
        BY <3>1, <3>2
      <4>2. OwnerAfter(h, d) = h
        BY <4>1, <3>2 DEF OwnerAfter, MayRelease
      <4> QED BY <2>1, <2>2, <3>1, <3>2, <4>2
    <3> QED BY <2>1, <2>2, <3>1, <3>2
  <2>4. CASE ~ (t <= m)
    BY <2>1, <2>4
  <2> QED BY <2>3, <2>4
<1> HIDE DEF S
<1>3. S = Nat
  <2>1. S \in SUBSET Nat BY DEF S
  <2> QED BY <1>1, <1>2, <2>1, Induction
<1> QED BY <1>3 DEF S

\* Somebody holds an issue only by an accepted claim.
LEMMA HeldByClaim ==
    ASSUME NEW g, NEW ids, Ownership(g, ids), NEW n \in Nat, g[n] # None
    PROVE  \E d \in ids : OpenClaim(d)
<1> SUFFICES ASSUME \A d \in ids : ~ OpenClaim(d) PROVE g[n] = None
  OBVIOUS
<1> DEFINE S == {m \in Nat : g[m] = None}
<1>1. 0 \in S
  BY DEF Ownership
<1>2. ASSUME NEW m \in S PROVE m + 1 \in S
  <2>1. PICK d \in Nat \ {0} : d = m + 1 /\ d - 1 = m
    OBVIOUS
  <2>2. g[d] = IF d \in ids THEN OwnerAfter(g[d - 1], d) ELSE g[d - 1]
    BY DEF Ownership
  <2>3. d \in ids => OwnerAfter(None, d) = None
    BY DEF OwnerAfter, OpenClaim
  <2> QED BY <2>1, <2>2, <2>3
<1> HIDE DEF S
<1>3. S = Nat
  <2>1. S \in SUBSET Nat BY DEF S
  <2> QED BY <1>1, <1>2, <2>1, Induction
<1> QED BY <1>3 DEF S

\* Later commands change nothing about what earlier ones came to.
LEMMA ComesToStays ==
    ASSUME NEW ids, NEW s, ids \subseteq CommandIds, ComesTo(ids, s),
           \A d \in CommandIds : commands'[d] = commands[d], Len(commands) \in Nat
    PROVE  ComesTo(ids, s)'
<1>1. PICK g : Ownership(g, ids) /\ g[s.through] = s.claimant
  BY DEF ComesTo
<1>2. \A d \in ids : commands'[d] = commands[d]
  OBVIOUS
<1>3. g \in [Nat -> Actor \union {None}] /\ g[0] = None
  BY <1>1 DEF Ownership
<1>4. \A d \in Nat \ {0} : g[d] = IF d \in ids THEN OwnerAfter(g[d - 1], d)' ELSE g[d - 1]
  BY <1>1, <1>2 DEF Ownership, OwnerAfter
<1>5. Ownership(g, ids)'
  BY <1>3, <1>4 DEF Ownership
<1> QED BY <1>1, <1>5 DEF ComesTo

\* The commenters of an issue that is not contested are not restricted.
LEMMA NobodyRestricted ==
    ASSUME TypeOK, NEW i, ~ Contested(i), NEW j, NEW d \in CommandIds, commands[d].issue = i
    PROVE  ActiveRestriction(commands[d].actor, Restrictions(j)) = None
<1>1. ASSUME NEW r \in Restrictions(j), r.actor = commands[d].actor
      PROVE  FALSE
  <2>1. PICK k \in DOMAIN bot : Restricted(k) /\ bot[k].restriction = r
    BY <1>1, ReadWasPosted
  <2> QED BY <1>1, <2>1 DEF Contested, Restricted
<1>2. {r \in Restrictions(j) : r.actor = commands[d].actor /\ r.until > clock} = {}
  BY <1>1
<1> QED BY <1>2 DEF ActiveRestriction

\* A restricted commenter stays on record.
LEMMA ContestedStays ==
    ASSUME TypeOK, [Next]_vars, NEW i, Contested(i)
    PROVE  Contested(i)'
<1>1. PICK k \in DOMAIN bot :
         /\ bot[k].restriction # None
         /\ \E d \in CommandIds : commands[d].issue = i /\ commands[d].actor = bot[k].restriction.actor
  BY DEF Contested
<1>2. PICK d \in CommandIds : commands[d].issue = i /\ commands[d].actor = bot[k].restriction.actor
  BY <1>1
<1>3. d \in CommandIds' /\ commands'[d] = commands[d]
  BY CommandsGrow
<1>4. k \in DOMAIN bot' /\ bot'[k] = bot[k]
  <2>1. CASE bot' = bot
    BY <2>1
  <2>2. CASE \E e : bot' = Append(bot, e)
    BY <2>2, PostedAtEnd
  <2>3. PersistReceipt \/ Checkpoint \/ bot' = bot
    BY DEF Next, vars, queue, Comment, Triage, Start, Tick, ApplyLabel, Stop
  <2> QED BY <2>1, <2>2, <2>3, PersistEffect, CheckpointEffect
<1> QED BY <1>1, <1>2, <1>3, <1>4 DEF Contested

\* A step of a replay in which nobody is restricted: the holder changes by the
\* plain rule, and a claim that is gone was released by someone who may.
FreeStep(s, d, x) ==
    /\ x.claimant = OwnerAfter(s.claimant, d)
    /\ x.through = d /\ x.blocked = FALSE /\ x.post = TRUE
    /\ (OpenClaim(d) \/ s.claimant # None \/ s.authorized) => (x.claimant # None \/ x.authorized)

\* Answering a command of somebody who is not restricted is such a step.
LEMMA AnswerFree ==
    ASSUME NEW s \in Replayed, NEW d \in CommandIds, NEW i,
           commands[d].actor \in Actor,
           ActiveRestriction(commands[d].actor, Restrictions(i)) = None
    PROVE  FreeStep(s, d, Answer(s, d, i))
<1> PICK x : x = Answer(s, d, i)
  OBVIOUS
<1> SUFFICES FreeStep(s, d, x)
  OBVIOUS
<1> USE DEF FreeStep
<1>1. PICK q : q = Quiet(s, d)
  OBVIOUS
<1>2. /\ DOMAIN q = DOMAIN s /\ q.through = d /\ q.blocked = FALSE /\ q.post = TRUE
      /\ q.claimant = s.claimant /\ q.authorized = s.authorized
      /\ DOMAIN s = {"claimant", "through", "authorized", "fresh", "restriction", "post", "blocked"}
  BY <1>1 DEF Quiet, Replayed
<1>3. PICK a : a = commands[d].actor
  OBVIOUS
<1>4. CASE commands[d].verb = "claim"
  <2>1. x = ReplayClaim(s, d, i)
    BY <1>4 DEF Answer
  <2>2. CASE ~ commands[d].open \/ s.claimant # None
    <3>1. x = q
      BY <1>1, <2>1, <2>2 DEF ReplayClaim
    <3>2. x.claimant = OwnerAfter(s.claimant, d)
      BY <1>2, <1>4, <2>2, <3>1 DEF OwnerAfter
    <3> QED BY <1>2, <2>2, <3>1, <3>2 DEF OpenClaim
  <2>3. CASE ~ (~ commands[d].open \/ s.claimant # None)
    <3>1. PICK F : F = IF d \in Recorded(i) THEN q.fresh ELSE q.fresh \union {d}
      OBVIOUS
    <3>2. x = [q EXCEPT !.claimant = a, !.fresh = F]
      BY <1>1, <1>2, <1>3, <2>1, <2>3, <3>1 DEF ReplayClaim
    <3>3. x.claimant = a /\ x.through = d /\ x.blocked = FALSE /\ x.post = TRUE
      BY <1>2, <3>2
    <3>4. OwnerAfter(s.claimant, d) = a
      BY <1>3, <1>4, <2>3 DEF OwnerAfter
    <3>5. a # None
      <4>1. a \in Actor
        BY <1>3
      <4> QED BY <4>1, NoneIs
    <3> QED BY <3>3, <3>4, <3>5
  <2> QED BY <2>2, <2>3
<1>5. CASE commands[d].verb # "claim"
  <2>1. x = ReplayUnclaim(s, d, i)
    BY <1>5 DEF Answer
  <2>2. CASE a = s.claimant \/ a \in Maintainer
    <3>1. PICK F : F = IF s.claimant = None \/ d \in Recorded(i) THEN q.fresh ELSE q.fresh \union {d}
      OBVIOUS
    <3>2. x = [q EXCEPT !.claimant = None, !.authorized = TRUE, !.fresh = F]
      BY <1>1, <1>2, <1>3, <2>1, <2>2, <3>1 DEF ReplayUnclaim
    <3>3. /\ x.claimant = None /\ x.through = d /\ x.blocked = FALSE /\ x.post = TRUE
          /\ x.authorized = TRUE
      BY <1>2, <3>2
    <3>4. OwnerAfter(s.claimant, d) = None
      BY <1>3, <1>5, <2>2 DEF OwnerAfter
    <3> QED BY <3>3, <3>4
  <2>3. CASE ~ (a = s.claimant \/ a \in Maintainer)
    <3>1. x = q
      BY <1>1, <1>3, <2>1, <2>3 DEF ReplayUnclaim
    <3>2. x.claimant = OwnerAfter(s.claimant, d)
      BY <1>2, <1>3, <1>5, <2>3, <3>1 DEF OwnerAfter
    <3> QED BY <1>2, <1>5, <3>1, <3>2 DEF OpenClaim
  <2> QED BY <2>2, <2>3
<1> QED BY <1>4, <1>5

-----------------------------------------------------------------------------
(* What checkpoints and labels say on an issue that is not contested. *)

\* On an issue none of whose commenters has been restricted, every checkpoint
\* is what the receipts before it come to, ...
PostsComeTo ==
    \A k \in DOMAIN bot :
        (bot[k].state # None /\ ~ Contested(bot[k].issue)) =>
            ComesTo(ReceiptsIn(bot[k].issue, k), bot[k].state)

\* ... and so is the one a run is about to post, which it does not leave out.
RunComesTo ==
    (run # Idle /\ ~ Contested(run.issue)) =>
        /\ run.persist /\ run.post
        /\ ComesTo(Receipts(run.issue, run.command), run.state)
        /\ run.stage # "receipt" => run.command \in Kept(run.issue)
        /\ run.stage = "label" => Holder(run.issue) = run.state.claimant

ReplayInv == CooldownInv /\ PostsComeTo /\ RunComesTo

\* Who put the label on: an accepted claim left its receipt.
LabelHasClaim ==
    \A i \in Issue : (claimed[i] /\ ~ Contested(i) /\ i \notin Labelled) =>
        \E d \in Kept(i) : OpenClaim(d)

\* What a run does to the label agrees with the checkpoint it posts.
LabelInHand ==
    run # Idle =>
        /\ run.issue \notin settled
        /\ ~ Contested(run.issue) =>
              /\ run.state.claimant # None => ~ run.remove /\ (claimed[run.issue] \/ run.add)
              /\ run.state.claimant = None =>
                    ~ run.add /\ (claimed[run.issue] => run.remove \/ run.issue \in Labelled)

LabelInv == ReplayInv /\ LabelFollowsState /\ LabelHasClaim /\ LabelInHand

\* Receipts are of commands on their issue, also those of the first comments.
LEMMA ReceiptsAre ==
    ASSUME TypeOK, OnIssue, NEW i
    PROVE  /\ Kept(i) \subseteq CommandIds
           /\ \A d \in Kept(i) : commands[d].issue = i
           /\ \A n : ReceiptsIn(i, n) \subseteq Kept(i)
           /\ \A c : Receipts(i, c) = Kept(i) \union {c}
<1>1. ASSUME NEW d \in Kept(i)
      PROVE  d \in CommandIds /\ commands[d].issue = i
  <2>1. PICK k \in Comments(i) : bot[k].receipt = d /\ d # None
    BY DEF Kept
  <2>2. k \in DOMAIN bot /\ bot[k].issue = i
    BY <2>1 DEF Comments
  <2>3. d \in CommandIds
    BY <2>1, <2>2, PostTypes
  <2>4. commands[d].issue = i
    BY <2>1, <2>2 DEF OnIssue
  <2> QED BY <2>3, <2>4
<1>2. \A n : ReceiptsIn(i, n) \subseteq Kept(i)
  BY DEF ReceiptsIn, Kept
<1>3. \A c : Receipts(i, c) = Kept(i) \union {c}
  BY DEF Receipts, Kept
<1> QED BY <1>1, <1>2, <1>3

\* No checkpoint of an uncontested issue ends before the first of its receipts,
\* so a replay starts from nothing.
LEMMA AnchorFree ==
    ASSUME TypeOK, OnIssue, PostsComeTo, NEW c \in CommandIds, NEW i, ~ Contested(i)
    PROVE  /\ Anchor(i, c) = [claimant |-> None, through |-> 0, trusted |-> FALSE]
           /\ Counting(i, c) = Receipts(i, c)
<1>1. Receipts(i, c) \subseteq CommandIds /\ c \in Receipts(i, c)
  BY ReceiptsAreCommands
<1>2. Receipts(i, c) \in SUBSET Nat /\ \A d \in Receipts(i, c) : d > 0
  BY <1>1, CommandTypes
<1>3. \A d \in Receipts(i, c) : Min(Receipts(i, c)) <= d /\ Min(Receipts(i, c)) \in Nat
  BY <1>1, <1>2, MinIsLeast
<1>4. ASSUME NEW s \in Checkpoints(i)
      PROVE  ~ (s.through < Min(Receipts(i, c)))
  <2>1. PICK k \in Comments(i) : bot[k].state = s /\ s # None
    BY DEF Checkpoints
  <2>2. k \in DOMAIN bot /\ bot[k].issue = i
    BY <2>1 DEF Comments
  <2>3. ComesTo(ReceiptsIn(i, k), s)
    BY <2>1, <2>2 DEF PostsComeTo
  <2>4. s.through \in ReceiptsIn(i, k)
    BY <2>3 DEF ComesTo
  <2>5. s.through \in Receipts(i, c)
    BY <2>4, ReceiptsAre
  <2> QED BY <1>2, <1>3, <2>5
<1>5. Anchor(i, c) = [claimant |-> None, through |-> 0, trusted |-> FALSE]
  BY <1>4, AnchorTypes DEF Anchor
<1> QED BY <1>2, <1>5 DEF Counting

\* On an uncontested issue a replay is what its receipts come to, keeps the
\* receipt, posts, and knows by whom a claim that is gone was released.
LEMMA ReplayFree ==
    ASSUME TypeOK, Dated, CooldownNotExtended, OnIssue, PostsComeTo,
           NEW c \in CommandIds, NEW i, commands[c].issue = i, ~ Contested(i),
           NEW s, s = Replay(i, c)
    PROVE  /\ s \in Replayed /\ s.blocked = FALSE /\ s.post = TRUE
           /\ ComesTo(Receipts(i, c), [claimant |-> s.claimant, through |-> s.through])
           /\ (\E d \in Receipts(i, c) : OpenClaim(d)) => (s.claimant # None \/ s.authorized)
<1>1. PICK ids : ids = Receipts(i, c)
  OBVIOUS
<1>2. PICK n \in Nat : n = Len(commands)
  BY CommandTypes
<1>3. PICK C : C = Course(Begin(i, c), ids, i)
  OBVIOUS
<1>4. /\ C[0] = Begin(i, c)
      /\ \A d \in 1 .. n : C[d] = IF d \in ids THEN Answer(C[d - 1], d, i) ELSE C[d - 1]
  BY <1>2, <1>3, CourseSteps
<1>5. s = C[n]
  BY <1>1, <1>2, <1>3, ReplayIsCourse, AnchorFree
<1>6. c \in ids /\ ids \subseteq CommandIds /\ ids \subseteq 1 .. n
  BY <1>1, <1>2, ReceiptsAreCommands DEF CommandIds
<1>7. \A d \in ids : commands[d].issue = i
  <2>1. ids = Kept(i) \union {c}
    BY <1>1, ReceiptsAre
  <2>2. \A d \in Kept(i) : commands[d].issue = i
    BY ReceiptsAre
  <2> QED BY <2>1, <2>2
<1>8. \A d \in ids : ActiveRestriction(commands[d].actor, Restrictions(i)) = None
  BY <1>6, <1>7, NobodyRestricted
<1>9. Begin(i, c) = [claimant |-> None, through |-> 0, authorized |-> FALSE,
                     fresh |-> {}, restriction |-> None, post |-> TRUE, blocked |-> FALSE]
  <2>1. PICK a : a = Anchor(i, c)
    OBVIOUS
  <2>2. a = [claimant |-> None, through |-> 0, trusted |-> FALSE]
    BY <2>1, AnchorFree
  <2>3. Begin(i, c) = [claimant |-> a.claimant, through |-> a.through,
                       authorized |-> a.trusted /\ a.claimant = None,
                       fresh |-> {}, restriction |-> None, post |-> TRUE, blocked |-> FALSE]
    BY <2>1 DEF Begin
  <2> QED BY <2>2, <2>3
<1> DEFINE Good(m) ==
             /\ Sane(C[m]) /\ C[m].blocked = FALSE /\ C[m].post = TRUE
             /\ C[m].through \in 0 .. m
             /\ C[m].through = 0 \/ C[m].through \in ids
             /\ \A e \in ids : e <= m => e <= C[m].through
             /\ C[C[m].through].claimant = C[m].claimant
             /\ \A e \in ids : (e <= m /\ OpenClaim(e)) => (C[m].claimant # None \/ C[m].authorized)
<1>10. Good(0)
  <2>1. Sane(C[0])
    BY <1>4, BeginSane
  <2>2. \A e \in ids : ~ (e <= 0)
    BY <1>6
  <2>3. C[0].through = 0 /\ C[0].blocked = FALSE /\ C[0].post = TRUE
    BY <1>4, <1>9
  <2> QED BY <2>1, <2>2, <2>3
<1>11. ASSUME NEW m \in Nat, m + 1 <= n, Good(m) PROVE Good(m + 1)
  <2>1. PICK d \in 1 .. n : d = m + 1 /\ d - 1 = m
    BY <1>11
  <2>2. Good(m) /\ m \in Nat
    BY <1>11
  <2>3. C[d] = IF d \in ids THEN Answer(C[m], d, i) ELSE C[m]
    BY <1>4, <2>1
  <2> SUFFICES Good(d)
    BY <2>1
  <2>4. CASE d \notin ids
    <3>1. C[d] = C[m]
      BY <2>3, <2>4
    <3>2. \A e \in ids : e <= d => e <= m
      BY <1>6, <2>1, <2>4
    <3> QED BY <2>1, <2>2, <3>1, <3>2
  <2>5. CASE d \in ids
    <3> PICK y : y = C[m]
      OBVIOUS
    <3>1. PICK x : x = Answer(y, d, i)
      OBVIOUS
    <3>2. C[d] = x /\ y \in Replayed /\ d \in CommandIds /\ commands[d].actor \in Actor
      BY <1>6, <2>2, <2>3, <2>5, <3>1, CommandTypes DEF Sane
    <3>3. /\ x.claimant = OwnerAfter(y.claimant, d)
          /\ x.through = d /\ x.blocked = FALSE /\ x.post = TRUE
          /\ (OpenClaim(d) \/ y.claimant # None \/ y.authorized) => (x.claimant # None \/ x.authorized)
      <4>1. ActiveRestriction(commands[d].actor, Restrictions(i)) = None
        BY <1>8, <2>5
      <4>2. FreeStep(y, d, Answer(y, d, i))
        BY <3>2, <4>1, AnswerFree
      <4> QED BY <3>1, <4>2 DEF FreeStep
    <3>4. Sane(x)
      BY <2>2, <3>1, <3>2, AnswerSane
    <3>5. \A e \in ids : e <= d => e <= x.through
      BY <3>3
    <3>6. \A e \in ids : (e <= d /\ OpenClaim(e)) => (x.claimant # None \/ x.authorized)
      <4>1. \A e \in ids : e <= d => e = d \/ e <= m
        BY <1>6, <2>1
      <4> QED BY <2>2, <3>3, <4>1
    <3>7. x.through \in 0 .. d
      BY <3>3
    <3> QED BY <2>5, <3>2, <3>3, <3>4, <3>5, <3>6, <3>7
  <2> QED BY <2>4, <2>5
<1>13. \A m \in Nat : m <= n => Good(m)
  <2> HIDE DEF Good
  <2> DEFINE S == {m \in Nat : m <= n => Good(m)}
  <2>1. 0 \in S
    BY <1>10
  <2>2. \A m \in S : m + 1 \in S
    BY <1>11
  <2>3. S \in SUBSET Nat
    OBVIOUS
  <2> HIDE DEF S
  <2>4. S = Nat
    BY <2>1, <2>2, <2>3, Induction
  <2> QED BY <2>4 DEF S
<1>14. Good(n)
  BY <1>13
<1>15. s.through \in ids /\ \A e \in ids : e <= s.through
  <2>1. \A e \in ids : e <= n /\ e > 0
    BY <1>6
  <2> QED BY <1>5, <1>6, <1>14, <2>1
<1> DEFINE g == [m \in Nat |-> IF m <= n THEN C[m].claimant ELSE C[n].claimant]
<1>16. Ownership(g, ids)
  <2>1. \A m \in Nat : m <= n => C[m].claimant \in Actor \union {None}
    BY <1>13 DEF Sane, Replayed
  <2>2. g \in [Nat -> Actor \union {None}]
    BY <2>1
  <2>3. g[0] = None
    BY <1>4, <1>9
  <2>4. ASSUME NEW d \in Nat \ {0}
        PROVE  g[d] = IF d \in ids THEN OwnerAfter(g[d - 1], d) ELSE g[d - 1]
    <3>1. PICK m \in Nat : m = d - 1
      OBVIOUS
    <3>2. CASE d <= n
      <4>1. g[d] = C[d].claimant /\ g[m] = C[m].claimant /\ d \in 1 .. n
        BY <3>1, <3>2
      <4>2. C[d] = IF d \in ids THEN Answer(C[m], d, i) ELSE C[m]
        BY <1>4, <3>1, <4>1
      <4>3. CASE d \in ids
        <5> PICK y : y = C[m]
          OBVIOUS
        <5>1. PICK x : x = Answer(y, d, i)
          OBVIOUS
        <5>2. y \in Replayed /\ d \in CommandIds /\ commands[d].actor \in Actor
          BY <1>6, <1>13, <3>1, <3>2, <4>3, CommandTypes DEF Sane
        <5>3. x.claimant = OwnerAfter(y.claimant, d)
          <6>1. ActiveRestriction(commands[d].actor, Restrictions(i)) = None
            BY <1>8, <4>3
          <6>2. FreeStep(y, d, Answer(y, d, i))
            BY <5>2, <6>1, AnswerFree
          <6> QED BY <5>1, <6>2 DEF FreeStep
        <5> HIDE DEF g
        <5> QED BY <3>1, <4>1, <4>2, <4>3, <5>1, <5>3
      <4>4. CASE d \notin ids
        <5> HIDE DEF g
        <5> QED BY <3>1, <4>1, <4>2, <4>4
      <4> QED BY <4>3, <4>4
    <3>3. CASE ~ (d <= n)
      <4>1. d \notin ids
        BY <1>6, <3>3
      <4>2. g[d] = C[n].claimant /\ g[m] = C[n].claimant
        BY <3>1, <3>3
      <4> HIDE DEF g
      <4> QED BY <3>1, <4>1, <4>2
    <3> QED BY <3>2, <3>3
  <2> HIDE DEF g
  <2> QED BY <2>2, <2>3, <2>4 DEF Ownership
<1>17. g[s.through] = s.claimant
  <2>1. \A e \in ids : e \in Nat /\ e <= n
    BY <1>6
  <2>2. s.through \in Nat /\ s.through <= n
    BY <1>15, <2>1
  <2> QED BY <1>5, <1>14, <2>2
<1>18. ComesTo(ids, [claimant |-> s.claimant, through |-> s.through])
  <2> HIDE DEF g
  <2> QED BY <1>15, <1>16, <1>17 DEF ComesTo
<1>19. (\E d \in ids : OpenClaim(d)) => (s.claimant # None \/ s.authorized)
  <2>1. \A e \in ids : e <= n
    BY <1>6
  <2> QED BY <1>5, <1>14, <2>1
<1>20. s \in Replayed /\ s.blocked = FALSE /\ s.post = TRUE
  BY <1>5, <1>14 DEF Sane
<1> QED BY <1>1, <1>18, <1>19, <1>20

\* What a comment adds to the receipts.
LEMMA KeptGrows ==
    ASSUME TypeOK, NEW e, bot' = Append(bot, e)
    PROVE  /\ \A i : Kept(i)' = IF e.issue = i /\ e.receipt # None
                               THEN Kept(i) \union {e.receipt} ELSE Kept(i)
           /\ \A i, k : k \in DOMAIN bot => ReceiptsIn(i, k)' = ReceiptsIn(i, k)
           /\ \A i, n : n = Len(bot) + 1 => ReceiptsIn(i, n)' = Kept(i)'
<1> DEFINE last == Len(bot) + 1
<1>1. /\ DOMAIN bot' = 1 .. last /\ DOMAIN bot = 1 .. Len(bot) /\ Len(bot) \in Nat
      /\ bot'[last] = e
      /\ \A k \in DOMAIN bot : bot'[k] = bot[k]
      /\ \A k \in DOMAIN bot' : k \in DOMAIN bot \/ k = last
  BY PostedAtEnd
<1>2. /\ \A k \in DOMAIN bot : k \in DOMAIN bot' /\ k < last
      /\ last \in DOMAIN bot' /\ last \notin DOMAIN bot
  BY <1>1
<1> HIDE DEF last
<1>3. ASSUME NEW i
      PROVE  Comments(i)' = Comments(i) \union (IF e.issue = i THEN {last} ELSE {})
  BY <1>1, <1>2 DEF Comments
<1>4. ASSUME NEW i, NEW k \in DOMAIN bot
      PROVE  ReceiptsIn(i, k)' = ReceiptsIn(i, k)
  <2>1. {j \in Comments(i)' : j <= k} = {j \in Comments(i) : j <= k}
    <3>1. ~ (last <= k)
      BY <1>1 DEF last
    <3> QED BY <1>3, <3>1
  <2>2. \A j \in Comments(i) : bot'[j] = bot[j]
    BY <1>1 DEF Comments
  <2> QED BY <2>1, <2>2 DEF ReceiptsIn
<1>5. ASSUME NEW i
      PROVE  Kept(i)' = IF e.issue = i /\ e.receipt # None
                        THEN Kept(i) \union {e.receipt} ELSE Kept(i)
  <2>1. \A j \in Comments(i) : bot'[j] = bot[j]
    BY <1>1 DEF Comments
  <2>2. CASE e.issue = i
    <3>1. Comments(i)' = Comments(i) \union {last}
      BY <1>3, <2>2
    <3> QED BY <1>1, <2>1, <2>2, <3>1 DEF Kept
  <2>3. CASE e.issue # i
    <3>1. Comments(i)' = Comments(i)
      BY <1>3, <2>3
    <3> QED BY <2>1, <2>3, <3>1 DEF Kept
  <2> QED BY <2>2, <2>3
<1>6. ASSUME NEW i, NEW n, n = last
      PROVE  ReceiptsIn(i, n)' = Kept(i)'
  <2>1. \A j \in DOMAIN bot' : j <= n
    BY <1>1, <1>6 DEF last
  <2>2. {j \in Comments(i)' : j <= n} = Comments(i)'
    BY <2>1 DEF Comments
  <2> QED BY <2>2 DEF ReceiptsIn, Kept
<1> QED BY <1>4, <1>5, <1>6 DEF last

\* The last post of an issue that has one is the last.
LEMMA LastPostIs ==
    ASSUME TypeOK, NEW i, Posts(i) # {}
    PROVE  LastPost(i) \in Posts(i) /\ \A k \in Posts(i) : k <= LastPost(i)
<1>1. \A k \in Posts(i) : k \in Nat /\ k <= Len(bot) /\ Len(bot) \in Nat
  BY PostTypes DEF Posts, Comments
<1>2. Posts(i) \in SUBSET Nat /\ Len(bot) \in Nat
  BY <1>1
<1> QED BY <1>1, <1>2, MaxIsGreatest DEF LastPost

\* Who holds an issue is decided by its checkpoints: any other comment leaves
\* it, and a checkpoint says it.
LEMMA HolderMoves ==
    ASSUME TypeOK, NEW e, bot' = Append(bot, e)
    PROVE  /\ \A i : (e.issue # i \/ e.state = None) => Holder(i)' = Holder(i)
           /\ \A i : (e.issue = i /\ e.state # None) => Holder(i)' = e.state.claimant
<1> DEFINE last == Len(bot) + 1
<1>1. /\ DOMAIN bot' = 1 .. last /\ DOMAIN bot = 1 .. Len(bot) /\ Len(bot) \in Nat
      /\ bot'[last] = e
      /\ \A k \in DOMAIN bot : bot'[k] = bot[k]
      /\ \A k \in DOMAIN bot' : k \in DOMAIN bot \/ k = last
  BY PostedAtEnd
<1>2. /\ \A k \in DOMAIN bot : k \in DOMAIN bot' /\ k < last
      /\ last \in DOMAIN bot' /\ last \notin DOMAIN bot
      /\ last \in Nat /\ \A k \in DOMAIN bot' : k \in Nat /\ k <= last
  BY <1>1
<1> HIDE DEF last
<1>3. ASSUME NEW i, e.issue # i \/ e.state = None
      PROVE  Holder(i)' = Holder(i)
  <2>1. Posts(i)' = Posts(i)
    BY <1>1, <1>2, <1>3 DEF Posts, Comments
  <2>2. LastPost(i)' = LastPost(i)
    BY <2>1 DEF LastPost
  <2>3. CASE Posts(i) = {}
    BY <2>1, <2>3 DEF Holder
  <2>4. CASE Posts(i) # {}
    <3>1. Posts(i) \subseteq DOMAIN bot
      BY DEF Posts, Comments
    <3>2. LastPost(i) \in Posts(i)
      BY <2>4, LastPostIs
    <3>3. bot'[LastPost(i)] = bot[LastPost(i)]
      BY <1>1, <3>1, <3>2
    <3> QED BY <2>1, <2>2, <2>4, <3>3 DEF Holder
  <2> QED BY <2>3, <2>4
<1>4. ASSUME NEW i, e.issue = i, e.state # None
      PROVE  Holder(i)' = e.state.claimant
  <2>1. last \in Posts(i)'
    BY <1>1, <1>2, <1>4 DEF Posts, Comments
  <2>2. Posts(i)' \in SUBSET Nat /\ \A k \in Posts(i)' : k <= last
    BY <1>2 DEF Posts, Comments
  <2>3. PICK P \in SUBSET Nat : P = Posts(i)'
    BY <2>2
  <2>4. Max(P) \in P /\ \A k \in P : k <= Max(P)
    BY <1>2, <2>1, <2>2, <2>3, MaxIsGreatest
  <2>5. Max(P) = last
    <3>1. Max(P) \in Nat /\ Max(P) <= last /\ last <= Max(P)
      BY <2>1, <2>2, <2>3, <2>4
    <3> QED BY <1>2, <3>1
  <2>6. LastPost(i)' = last
    BY <2>3, <2>5 DEF LastPost
  <2>7. Posts(i)' # {}
    BY <2>1
  <2> QED BY <1>1, <2>6, <2>7 DEF Holder
<1> QED BY <1>3, <1>4

-----------------------------------------------------------------------------
(* Checkpoints: ReplayInv is inductive. *)

\* Nothing has been posted at first.
LEMMA ReplayInit == Init => ReplayInv
<1> SUFFICES ASSUME Init PROVE ReplayInv
  OBVIOUS
<1>1. bot = <<>> /\ run = Idle /\ DOMAIN bot = {}
  BY DEF Init
<1> QED BY <1>1, CooldownInit DEF ReplayInv, PostsComeTo, RunComesTo

\* Every step posts at most one comment, of the run in progress.
LEMMA OnlyRunsPost ==
    ASSUME [Next]_vars
    PROVE  bot' = bot \/ PersistReceipt \/ Checkpoint
BY DEF Next, vars, queue, Comment, Triage, Start, Tick, ApplyLabel, Stop

\* What is on record stays so: checkpoints keep being what the receipts before
\* them come to, and the one a run posts is what its receipts come to.
LEMMA PostsNext ==
    ASSUME ReplayInv, [Next]_vars
    PROVE  PostsComeTo'
<1>1. TypeOK /\ OnIssue /\ PostsComeTo /\ RunComesTo
  BY DEF ReplayInv, CooldownInv
<1>2. \A d \in CommandIds : commands'[d] = commands[d]
  BY <1>1, CommandsGrow
<1>3. Len(commands) \in Nat
  BY <1>1, CommandTypes
<1> SUFFICES ASSUME NEW k \in DOMAIN bot', NEW i, i = bot'[k].issue,
                    NEW st, st = bot'[k].state, st # None, ~ Contested(i)',
                    NEW ids, ids = ReceiptsIn(i, k)'
             PROVE  ComesTo(ids, st)'
  BY DEF PostsComeTo
<1>4. ~ Contested(i)
  BY <1>1, ContestedStays
<1>5. CASE k \in DOMAIN bot /\ bot'[k] = bot[k] /\ ReceiptsIn(i, k)' = ReceiptsIn(i, k)
  <2>1. ComesTo(ids, st)
    BY <1>1, <1>4, <1>5 DEF PostsComeTo
  <2>2. ids \subseteq CommandIds
    BY <1>1, <1>5, ReceiptsAre
  <2> QED BY <1>2, <1>3, <2>1, <2>2, ComesToStays
<1>6. CASE bot' = bot
  <2>1. ReceiptsIn(i, k)' = ReceiptsIn(i, k)
    BY <1>6 DEF ReceiptsIn, Comments
  <2> QED BY <1>5, <1>6, <2>1
<1>7. CASE \E e : bot' = Append(bot, e) /\ k \in DOMAIN bot
  <2>1. PICK e : bot' = Append(bot, e) /\ k \in DOMAIN bot
    BY <1>7
  <2>2. ReceiptsIn(i, k)' = ReceiptsIn(i, k)
    BY <1>1, <2>1, KeptGrows
  <2>3. bot'[k] = bot[k]
    BY <1>1, <2>1, PostedAtEnd
  <2> QED BY <1>5, <2>1, <2>2, <2>3
<1>8. CASE PersistReceipt
  <2>1. CASE run.persist
    <3>1. PICK e : bot' = Append(bot, e) /\ e.state = None
      BY <1>1, <1>8, <2>1, PersistEffect
    <3>2. k \in DOMAIN bot
      BY <1>1, <3>1, PostedAtEnd
    <3> QED BY <1>7, <3>1, <3>2
  <2> QED BY <1>1, <1>6, <1>8, <2>1, PersistEffect
<1>9. CASE Checkpoint
  <2>1. CASE run.post
    <3>1. PICK e : /\ bot' = Append(bot, e) /\ e.issue = run.issue /\ e.receipt = None
                   /\ e.state = run.state
      BY <1>1, <1>9, <2>1, CheckpointEffect
    <3>2. CASE k \notin DOMAIN bot
      <4>1. k = Len(bot) + 1 /\ bot'[k] = e
        BY <1>1, <3>1, <3>2, PostedAtEnd
      <4>2. i = run.issue /\ st = run.state
        BY <3>1, <4>1
      <4>3. run # Idle /\ run.stage = "checkpoint"
        BY <1>1, <1>9, CheckpointEffect
      <4> PICK c : c = run.command
        OBVIOUS
      <4>4. ComesTo(Receipts(i, c), st) /\ c \in Kept(i)
        BY <1>1, <1>4, <4>2, <4>3 DEF RunComesTo
      <4>5. Receipts(i, c) = Kept(i)
        BY <4>4 DEF Receipts, Kept
      <4>6. ids = Kept(i)
        BY <1>1, <3>1, <4>1, KeptGrows
      <4>7. ComesTo(ids, st) /\ ids \subseteq CommandIds
        BY <1>1, <4>4, <4>5, <4>6, ReceiptsAre
      <4> QED BY <1>2, <1>3, <4>7, ComesToStays
    <3> QED BY <1>7, <3>1, <3>2
  <2> QED BY <1>1, <1>6, <1>9, <2>1, CheckpointEffect
<1> QED BY <1>6, <1>8, <1>9, OnlyRunsPost

\* A run is planned from all the receipts, and keeps its plan.
LEMMA RunNext ==
    ASSUME ReplayInv, [Next]_vars
    PROVE  RunComesTo'
<1>1. TypeOK /\ OnIssue /\ PostsComeTo /\ RunComesTo /\ Dated /\ CooldownNotExtended
  BY DEF ReplayInv, CooldownInv
<1>2. \A d \in CommandIds : commands'[d] = commands[d]
  BY <1>1, CommandsGrow
<1>3. Len(commands) \in Nat
  BY <1>1, CommandTypes
<1> SUFFICES ASSUME run' # Idle, NEW i, i = run'.issue, NEW c, c = run'.command,
                    NEW st, st = run'.state, ~ Contested(i)', NEW ids, ids = Receipts(i, c)'
             PROVE  /\ run'.persist /\ run'.post
                    /\ ComesTo(ids, st)'
                    /\ run'.stage # "receipt" => c \in Kept(i)'
                    /\ run'.stage = "label" => Holder(i)' = st.claimant
  BY DEF RunComesTo
<1>4. ~ Contested(i)
  BY <1>1, ContestedStays
<1>5. ASSUME run # Idle, i = run.issue, c = run.command, st = run.state, ids = Receipts(i, c)
      PROVE  run.persist /\ run.post /\ ComesTo(ids, st)'
  <2>1. run.persist /\ run.post /\ ComesTo(ids, st)
    BY <1>1, <1>4, <1>5 DEF RunComesTo
  <2>2. c \in CommandIds
    BY <1>1, <1>5, RunTypes
  <2>3. ids \subseteq CommandIds
    BY <1>1, <1>5, <2>2, ReceiptsAreCommands
  <2> QED BY <1>2, <1>3, <2>1, <2>3, ComesToStays
<1>6. CASE run' = run /\ bot' = bot
  <2>1. ids = Receipts(i, c) /\ Kept(i)' = Kept(i) /\ Holder(i)' = Holder(i)
    BY <1>6 DEF Receipts, Kept, Comments, Holder, LastPost, Posts
  <2>2. run.stage # "receipt" => c \in Kept(i)
    BY <1>1, <1>4, <1>6 DEF RunComesTo
  <2>3. run.stage = "label" => Holder(i) = st.claimant
    BY <1>1, <1>4, <1>6 DEF RunComesTo
  <2> QED BY <1>5, <1>6, <2>1, <2>2, <2>3
<1>7. CASE \E x \in pending \union failed : Start(x)
  <2>1. PICK x \in pending \union failed : Start(x)
    BY <1>7
  <2>2. /\ x \in CommandIds /\ run' = Plan(commands[x].issue, x)
        /\ bot' = bot /\ commands' = commands
    BY <1>1, <2>1, StartEffect
  <2>3. PICK j : j = commands[x].issue
    OBVIOUS
  <2>4. PICK s : s = Replay(j, x)
    OBVIOUS
  <2>5. /\ run'.stage = "receipt" /\ run'.issue = j /\ run'.command = x
        /\ run'.persist = ~ s.blocked /\ run'.post = s.post
        /\ run'.state = [claimant |-> s.claimant, through |-> s.through]
    BY <2>2, <2>3, <2>4 DEF Plan
  <2>6. /\ s.blocked = FALSE /\ s.post = TRUE
        /\ ComesTo(Receipts(i, c), st)
    BY <1>1, <1>4, <2>2, <2>3, <2>4, <2>5, ReplayFree
  <2>7. ids = Receipts(i, c)
    BY <2>2 DEF Receipts, Comments
  <2>8. ids \subseteq CommandIds
    BY <1>1, <2>2, <2>5, <2>7, ReceiptsAreCommands
  <2>9. ComesTo(ids, st)'
    BY <1>2, <1>3, <2>6, <2>7, <2>8, ComesToStays
  <2> QED BY <2>5, <2>6, <2>9
<1>8. CASE PersistReceipt
  <2>1. /\ run # Idle /\ i = run.issue /\ c = run.command /\ st = run.state
        /\ run'.persist = run.persist /\ run'.post = run.post /\ run'.stage = "checkpoint"
    BY <1>1, <1>8, PersistEffect
  <2>2. run.persist
    BY <1>1, <1>4, <2>1 DEF RunComesTo
  <2>3. c \in CommandIds /\ c # None
    BY <1>1, <2>1, RunTypes, CommandTypes, NoneIs
  <2>4. PICK e : bot' = Append(bot, e) /\ e.issue = i /\ e.receipt = c
    BY <1>1, <1>8, <2>1, <2>2, PersistEffect
  <2>5. Kept(i)' = Kept(i) \union {c}
    BY <1>1, <2>3, <2>4, KeptGrows
  <2>6. ids = Receipts(i, c)
    BY <2>5 DEF Receipts, Kept
  <2> QED BY <1>5, <2>1, <2>5, <2>6
<1>9. CASE Checkpoint
  <2>1. /\ run # Idle /\ i = run.issue /\ c = run.command /\ st = run.state
        /\ run.stage = "checkpoint"
        /\ run'.persist = run.persist /\ run'.post = run.post /\ run'.stage = "label"
    BY <1>1, <1>9, CheckpointEffect
  <2>2. run.post /\ c \in Kept(i)
    BY <1>1, <1>4, <2>1 DEF RunComesTo
  <2>3. PICK e : bot' = Append(bot, e) /\ e.issue = i /\ e.receipt = None /\ e.state = st
    BY <1>1, <1>9, <2>1, <2>2, CheckpointEffect
  <2>4. Kept(i)' = Kept(i)
    BY <1>1, <2>3, KeptGrows
  <2>5. ids = Receipts(i, c)
    BY <2>4 DEF Receipts, Kept
  <2>6. st # None
    BY <1>1, <2>1, RunTypes, NoneIs
  <2>7. Holder(i)' = st.claimant
    BY <1>1, <2>3, <2>6, HolderMoves
  <2> QED BY <1>5, <2>1, <2>2, <2>4, <2>5, <2>7
<1>10. CASE ~ (PersistReceipt \/ Checkpoint \/ \E x \in pending \union failed : Start(x))
  <2>1. run' = run /\ bot' = bot
    BY <1>10 DEF Next, vars, queue, Comment, Triage, Tick, ApplyLabel, Stop
  <2> QED BY <2>1, <1>6
<1> QED BY <1>7, <1>8, <1>9, <1>10

\* ReplayInv holds in every reachable state.
LEMMA ReplayAlways == Spec => []ReplayInv
<1>1. ReplayInv /\ [Next]_vars => ReplayInv'
  BY CooldownStep, PostsNext, RunNext DEF ReplayInv
<1> QED BY <1>1, ReplayInit, PTL DEF Spec

-----------------------------------------------------------------------------
(* Claims are kept. *)

\* Two ways for a holder to change: a release that came after, or a receipt that
\* the last checkpoint had not seen.
LEMMA HolderChanges ==
    ASSUME TypeOK, OnIssue, PostsComeTo, NEW i, ~ Contested(i), Holder(i) # None,
           NEW st, ComesTo(Kept(i), st), st.claimant # Holder(i),
           NEW k, k = LastPost(i)
    PROVE  \E d \in Kept(i) :
               \/ d \notin ReceiptsIn(i, k) /\ d < bot[k].state.through
               \/ MayRelease(d, Holder(i)) /\ d > bot[k].state.through
<1>1. PICK h : h = Holder(i)
  OBVIOUS
<1>2. Posts(i) # {} /\ bot[k].state.claimant = h
  BY <1>1 DEF Holder
<1>3. k \in DOMAIN bot /\ bot[k].issue = i /\ bot[k].state # None
  BY <1>2, LastPostIs DEF Posts, Comments
<1>4. PICK t : t = bot[k].state.through
  OBVIOUS
<1>5. PICK A : A = ReceiptsIn(i, k)
  OBVIOUS
<1>6. PICK B : B = Kept(i)
  OBVIOUS
<1>7. ComesTo(A, bot[k].state)
  BY <1>3, <1>5 DEF PostsComeTo
<1>8. PICK f : Ownership(f, A) /\ f[t] = h
  BY <1>2, <1>4, <1>7 DEF ComesTo
<1>9. t \in A /\ \A d \in A : d <= t
  BY <1>4, <1>7 DEF ComesTo
<1>10. PICK g : Ownership(g, B) /\ g[st.through] = st.claimant
  BY <1>6 DEF ComesTo
<1>11. st.through \in B /\ \A d \in B : d <= st.through
  BY <1>6 DEF ComesTo
<1>12. A \subseteq B /\ B \subseteq CommandIds /\ B \subseteq Nat
  BY <1>5, <1>6, ReceiptsAre, CommandTypes
<1>13. SUFFICES ASSUME \A d \in B : ~ (d \notin A /\ d < t),
                       \A d \in B : ~ (MayRelease(d, h) /\ d > t)
                PROVE  FALSE
  BY <1>1, <1>4, <1>5, <1>6
<1>14. \A d \in Nat : d <= t => (d \in A <=> d \in B)
  BY <1>9, <1>12, <1>13
<1>15. t \in Nat /\ g[t] = h
  BY <1>8, <1>9, <1>10, <1>12, <1>14, SameOwners
<1>16. st.through \in Nat /\ t <= st.through
  BY <1>9, <1>11, <1>12
<1>17. \A d \in B : commands[d].verb \in {"claim", "unclaim"}
  BY <1>12, CommandTypes
<1>18. g[st.through] = h
  BY <1>1, <1>10, <1>13, <1>15, <1>16, <1>17, HeldUntilReleased
<1> QED BY <1>1, <1>10, <1>18

\* The recorded claimant of an issue loses it only to a release that came after,
\* by themselves or a maintainer, or to an earlier comment answered late; for any
\* runs that stop and are repeated.
THEOREM KeptUntilReleasedHolds == Spec => KeptUntilReleased
<1> DEFINE Step == \A i \in Issue :
        (/\ Holder(i) # None /\ Holder(i)' # Holder(i) /\ ~ Contested(i)) =>
            \E k \in Comments(i)' : /\ k > LastPost(i) \/ bot'[k].receipt # None
                                    /\ bot'[k].receipt \in CommandIds
                                    /\ \/ MayRelease(bot'[k].receipt, Holder(i)) /\ bot'[k].receipt > bot[LastPost(i)].state.through
                                       \/ k > LastPost(i) /\ bot'[k].receipt < bot[LastPost(i)].state.through
<1>1. ReplayInv /\ [Next]_vars => Step
  <2> SUFFICES ASSUME ReplayInv, [Next]_vars, NEW i \in Issue,
                      Holder(i) # None, Holder(i)' # Holder(i), ~ Contested(i)
               PROVE  \E k \in Comments(i)' :
                          /\ k > LastPost(i) \/ bot'[k].receipt # None
                          /\ bot'[k].receipt \in CommandIds
                          /\ \/ MayRelease(bot'[k].receipt, Holder(i)) /\ bot'[k].receipt > bot[LastPost(i)].state.through
                             \/ k > LastPost(i) /\ bot'[k].receipt < bot[LastPost(i)].state.through
    OBVIOUS
  <2>1. TypeOK /\ OnIssue /\ PostsComeTo /\ RunComesTo
    BY DEF ReplayInv, CooldownInv
  <2>2. bot' # bot
    <3>1. bot' = bot => Holder(i)' = Holder(i)
      BY DEF Holder, LastPost, Posts, Comments
    <3> QED BY <3>1
  <2>3. ~ PersistReceipt
    <3> SUFFICES ASSUME PersistReceipt PROVE FALSE
      OBVIOUS
    <3>1. PICK e : bot' = Append(bot, e) /\ e.state = None
      BY <2>1, <2>2, PersistEffect
    <3> QED BY <2>1, <3>1, HolderMoves
  <2>4. Checkpoint
    BY <2>2, <2>3, OnlyRunsPost
  <2>5. PICK e : /\ bot' = Append(bot, e) /\ e.issue = run.issue /\ e.receipt = None
                 /\ e.state = run.state
    BY <2>1, <2>2, <2>4, CheckpointEffect, RunTypes
  <2>6. run # Idle /\ run.stage = "checkpoint" /\ run.state # None
    BY <2>1, <2>4, CheckpointEffect, RunTypes, NoneIs
  <2>7. i = run.issue /\ Holder(i)' = run.state.claimant
    BY <2>1, <2>5, <2>6, HolderMoves
  <2>8. PICK c : c = run.command
    OBVIOUS
  <2>9. ComesTo(Receipts(i, c), run.state) /\ c \in Kept(i)
    BY <2>1, <2>6, <2>7, <2>8 DEF RunComesTo
  <2>10. Receipts(i, c) = Kept(i)
    BY <2>9 DEF Receipts, Kept
  <2>11. PICK m : m = LastPost(i)
    OBVIOUS
  <2>12. PICK st : st = run.state
    OBVIOUS
  <2>13. PICK d \in Kept(i) : \/ d \notin ReceiptsIn(i, m) /\ d < bot[m].state.through
                              \/ MayRelease(d, Holder(i)) /\ d > bot[m].state.through
    BY <2>1, <2>7, <2>9, <2>10, <2>11, <2>12, HolderChanges
  <2>14. PICK k \in Comments(i) : bot[k].receipt = d /\ d # None
    BY <2>13 DEF Kept
  <2>15. d \in CommandIds
    BY <2>1, <2>13, ReceiptsAre
  <2>16. k \in Comments(i)' /\ bot'[k] = bot[k]
    BY <2>1, <2>5, <2>14, PostedAtEnd DEF Comments
  <2>17. m \in Nat /\ k \in Nat
    <3>1. Posts(i) # {}
      BY DEF Holder
    <3> QED BY <2>1, <2>11, <2>14, <3>1, LastPostIs, PostTypes DEF Posts, Comments
  <2>18. d \notin ReceiptsIn(i, m) => k > m
    BY <2>14, <2>17 DEF ReceiptsIn
  <2> QED BY <2>11, <2>13, <2>14, <2>15, <2>16, <2>18
<1> HIDE DEF Step
<1>2. Spec => [][Step]_vars
  BY <1>1, ReplayAlways, PTL DEF Spec
<1> QED BY <1>2 DEF KeptUntilReleased, Step

-----------------------------------------------------------------------------
(* Labels follow the record: LabelInv is inductive. *)

\* Every label at first was put on by hand.
LEMMA LabelInit == Init => LabelInv
<1> SUFFICES ASSUME Init PROVE LabelInv
  OBVIOUS
<1>1. /\ run = Idle /\ settled = {} /\ claimed = [i \in Issue |-> i \in Labelled]
      /\ ReplayInv
  BY ReplayInit DEF Init
<1> QED BY <1>1 DEF LabelInv, LabelFollowsState, LabelHasClaim, LabelInHand

\* The label of the last step of a run, and of no other issue.
LEMMA ApplyEffect ==
    ASSUME TypeOK, ApplyLabel
    PROVE  /\ run # Idle /\ run.stage = "label" /\ run.issue \in Issue /\ run' = Idle
           /\ bot' = bot /\ commands' = commands
           /\ settled' = settled \union {run.issue}
           /\ \A i \in Issue : i # run.issue => claimed'[i] = claimed[i]
           /\ claimed'[run.issue] = ((claimed[run.issue] \/ run.add) /\ ~ run.remove)
<1>1. run # Idle /\ run.stage = "label"
  BY StageIsRun DEF ApplyLabel
<1>2. run.issue \in Issue
  BY <1>1, RunTypes
<1>3. /\ claimed' = [claimed EXCEPT ![run.issue] = (@ \/ run.add) /\ ~ run.remove]
      /\ settled' = settled \union {run.issue} /\ run' = Idle
      /\ bot' = bot /\ commands' = commands
  BY DEF ApplyLabel, queue
<1>4. claimed \in [Issue -> BOOLEAN]
  BY DEF TypeOK
<1> QED BY <1>1, <1>2, <1>3, <1>4

\* Receipts stay on record.
LEMMA KeptStays ==
    ASSUME TypeOK, [Next]_vars, NEW i
    PROVE  Kept(i) \subseteq Kept(i)'
<1>1. CASE bot' = bot
  BY <1>1 DEF Kept, Comments
<1>2. CASE \E e : bot' = Append(bot, e)
  BY <1>2, KeptGrows
<1> QED BY <1>1, <1>2, OnlyRunsPost, PersistEffect, CheckpointEffect

\* A step that leaves the labels leaves what put them on.
LEMMA LabelHasClaimNext ==
    ASSUME LabelInv, [Next]_vars
    PROVE  LabelHasClaim'
<1>1. TypeOK /\ OnIssue /\ RunComesTo /\ LabelHasClaim /\ LabelInHand
  BY DEF LabelInv, ReplayInv, CooldownInv
<1> SUFFICES ASSUME NEW i \in Issue, claimed'[i], ~ Contested(i)', i \notin Labelled
             PROVE  \E d \in Kept(i)' : OpenClaim(d)'
  BY DEF LabelHasClaim
<1>2. ~ Contested(i)
  BY <1>1, ContestedStays
<1>3. \A d \in Kept(i) : d \in Kept(i)' /\ (OpenClaim(d) => OpenClaim(d)')
  <2>1. Kept(i) \subseteq Kept(i)' /\ Kept(i) \subseteq CommandIds
    BY <1>1, KeptStays, ReceiptsAre
  <2>2. \A d \in CommandIds : commands'[d] = commands[d]
    BY <1>1, CommandsGrow
  <2> QED BY <2>1, <2>2 DEF OpenClaim
<1>4. CASE claimed[i]
  BY <1>1, <1>2, <1>3, <1>4 DEF LabelHasClaim
<1>5. CASE ~ claimed[i]
  <2>1. claimed' # claimed
    BY <1>5
  <2>2. ApplyLabel
    BY <2>1 DEF Next, vars, queue, Comment, Triage, Tick, Start, PersistReceipt, Checkpoint, Stop
  <2>3. i = run.issue /\ run.add /\ ~ run.remove /\ run # Idle /\ run.stage = "label"
    BY <1>1, <1>5, <2>2, ApplyEffect
  <2>4. PICK c : c = run.command
    OBVIOUS
  <2>5. ComesTo(Receipts(i, c), run.state) /\ c \in Kept(i)
    BY <1>1, <1>2, <2>3, <2>4 DEF RunComesTo
  <2>6. Receipts(i, c) = Kept(i)
    BY <2>5 DEF Receipts, Kept
  <2>7. run.state.claimant # None
    BY <1>1, <1>2, <2>3 DEF LabelInHand
  <2>8. PICK g : Ownership(g, Kept(i)) /\ g[run.state.through] # None
    BY <2>5, <2>6, <2>7 DEF ComesTo
  <2>9. run.state.through \in Nat
    BY <1>1, <2>5, <2>6, ReceiptsAre, CommandTypes DEF ComesTo
  <2>10. PICK B : B = Kept(i)
    OBVIOUS
  <2>11. \E d \in B : OpenClaim(d)
    BY <2>8, <2>9, <2>10, HeldByClaim
  <2> QED BY <1>3, <2>10, <2>11
<1> QED BY <1>4, <1>5

\* A plan's label is the plan's state, by what a replay knows of releases.
LEMMA PlannedLabel ==
    ASSUME LabelInv, NEW c \in CommandIds, NEW i, i = commands[c].issue, ~ Contested(i),
           NEW p, p = Plan(i, c)
    PROVE  /\ p.state.claimant # None => ~ p.remove /\ (claimed[i] \/ p.add)
           /\ p.state.claimant = None => ~ p.add /\ (claimed[i] => p.remove \/ i \in Labelled)
<1>1. /\ TypeOK /\ OnIssue /\ PostsComeTo /\ Dated /\ CooldownNotExtended /\ LabelHasClaim
  BY DEF LabelInv, ReplayInv, CooldownInv
<1>2. PICK s : s = Replay(i, c)
  OBVIOUS
<1>3. /\ p.state.claimant = s.claimant
      /\ p.add = (s.claimant # None /\ ~ claimed[i])
      /\ p.remove = (s.claimant = None /\ claimed[i] /\ s.authorized)
  BY <1>2 DEF Plan
<1>4. (\E d \in Receipts(i, c) : OpenClaim(d)) => (s.claimant # None \/ s.authorized)
  BY <1>1, <1>2, ReplayFree
<1>5. i \in Issue
  BY <1>1, CommandTypes
<1>6. ASSUME claimed[i], i \notin Labelled
      PROVE  s.claimant # None \/ s.authorized
  <2>1. PICK d \in Kept(i) : OpenClaim(d)
    BY <1>1, <1>5, <1>6 DEF LabelHasClaim
  <2>2. d \in Receipts(i, c)
    BY DEF Receipts, Kept
  <2> QED BY <1>4, <2>1, <2>2
<1> QED BY <1>3, <1>6

\* A run keeps its plan for the label, and nobody else touches the label.
LEMMA LabelInHandNext ==
    ASSUME LabelInv, [Next]_vars
    PROVE  LabelInHand'
<1>1. TypeOK /\ LabelInHand
  BY DEF LabelInv, ReplayInv, CooldownInv
<1> SUFFICES ASSUME run' # Idle, NEW i, i = run'.issue
             PROVE  /\ i \notin settled'
                    /\ ~ Contested(i)' =>
                          /\ run'.state.claimant # None => ~ run'.remove /\ (claimed'[i] \/ run'.add)
                          /\ run'.state.claimant = None =>
                                ~ run'.add /\ (claimed'[i] => run'.remove \/ i \in Labelled)
  BY DEF LabelInHand
<1>2. ~ Contested(i)' => ~ Contested(i)
  BY <1>1, ContestedStays
<1>3. CASE \E c \in pending \union failed : Start(c)
  <2>1. PICK c \in pending \union failed : Start(c)
    BY <1>3
  <2>2. /\ c \in CommandIds /\ run' = Plan(commands[c].issue, c)
        /\ settled' = settled \ {commands[c].issue} /\ claimed' = claimed
    BY <1>1, <2>1, StartEffect
  <2>3. PICK p : p = Plan(commands[c].issue, c)
    OBVIOUS
  <2>4. p.issue = commands[c].issue
    BY <2>3 DEF Plan
  <2>5. i = commands[c].issue /\ p = Plan(i, c) /\ run' = p
    BY <2>2, <2>3, <2>4
  <2>6. ~ Contested(i) =>
           /\ p.state.claimant # None => ~ p.remove /\ (claimed[i] \/ p.add)
           /\ p.state.claimant = None => ~ p.add /\ (claimed[i] => p.remove \/ i \in Labelled)
    BY <2>2, <2>5, PlannedLabel
  <2> QED BY <1>2, <2>2, <2>5, <2>6
<1>4. CASE /\ run # Idle /\ run'.issue = run.issue /\ run'.state = run.state
           /\ run'.add = run.add /\ run'.remove = run.remove
           /\ claimed' = claimed /\ settled' = settled
  BY <1>1, <1>2, <1>4 DEF LabelInHand
<1>5. CASE PersistReceipt
  BY <1>1, <1>4, <1>5, PersistEffect
<1>6. CASE Checkpoint
  BY <1>1, <1>4, <1>6, CheckpointEffect
<1>7. CASE ~ (PersistReceipt \/ Checkpoint \/ \E c \in pending \union failed : Start(c))
  <2>1. run' = run /\ claimed' = claimed /\ settled' = settled
    BY <1>7 DEF Next, vars, queue, Comment, Triage, Tick, ApplyLabel, Stop
  <2> QED BY <1>4, <2>1
<1> QED BY <1>3, <1>5, <1>6, <1>7

\* A run that goes through leaves the label as its checkpoint says, and the
\* comments of a run are on its own issue, which is not settled.
LEMMA FollowsNext ==
    ASSUME LabelInv, [Next]_vars
    PROVE  LabelFollowsState'
<1>1. TypeOK /\ RunComesTo /\ LabelInHand /\ LabelFollowsState
  BY DEF LabelInv, ReplayInv, CooldownInv
<1> SUFFICES ASSUME NEW i \in settled', ~ Contested(i)'
             PROVE  /\ Holder(i)' # None => claimed'[i]
                    /\ claimed'[i] => Holder(i)' # None \/ i \in Labelled
  BY DEF LabelFollowsState
<1>2. ~ Contested(i)
  BY <1>1, ContestedStays
<1>3. CASE i \in settled /\ claimed'[i] = claimed[i] /\ Holder(i)' = Holder(i)
  BY <1>1, <1>2, <1>3 DEF LabelFollowsState
<1>4. bot' = bot => Holder(i)' = Holder(i)
  BY DEF Holder, LastPost, Posts, Comments
<1>5. CASE PersistReceipt
  <2>1. run # Idle /\ claimed' = claimed /\ settled' = settled
    BY <1>1, <1>5, PersistEffect
  <2>2. bot' = bot \/ \E e : bot' = Append(bot, e) /\ e.state = None
    BY <1>1, <1>5, PersistEffect, RunTypes
  <2>3. Holder(i)' = Holder(i)
    BY <1>1, <1>4, <2>2, HolderMoves
  <2> QED BY <1>3, <2>1, <2>3
<1>6. CASE Checkpoint
  <2>1. run # Idle /\ claimed' = claimed /\ settled' = settled
    BY <1>1, <1>6, CheckpointEffect
  <2>2. bot' = bot \/ \E e : bot' = Append(bot, e) /\ e.issue = run.issue
    BY <1>1, <1>6, CheckpointEffect, RunTypes
  <2>3. i # run.issue
    BY <1>1, <2>1 DEF LabelInHand
  <2>4. Holder(i)' = Holder(i)
    BY <1>1, <1>4, <2>2, <2>3, HolderMoves
  <2> QED BY <1>3, <2>1, <2>4
<1>7. CASE ApplyLabel
  <2>1. /\ run # Idle /\ run.stage = "label" /\ bot' = bot /\ run.issue \in Issue
        /\ settled' = settled \union {run.issue}
        /\ \A j \in Issue : j # run.issue => claimed'[j] = claimed[j]
        /\ claimed'[run.issue] = ((claimed[run.issue] \/ run.add) /\ ~ run.remove)
    BY <1>1, <1>7, ApplyEffect
  <2>2. Holder(i)' = Holder(i)
    BY <1>4, <2>1
  <2>3. CASE i = run.issue
    <3>1. Holder(i) = run.state.claimant
      BY <1>1, <1>2, <2>1, <2>3 DEF RunComesTo
    <3>2. /\ run.state.claimant # None => ~ run.remove /\ (claimed[i] \/ run.add)
          /\ run.state.claimant = None => ~ run.add /\ (claimed[i] => run.remove \/ i \in Labelled)
      BY <1>1, <1>2, <2>1, <2>3 DEF LabelInHand
    <3> QED BY <2>1, <2>2, <2>3, <3>1, <3>2
  <2>4. CASE i # run.issue
    <3>1. i \in settled /\ i \in Issue
      BY <1>1, <2>1, <2>4 DEF TypeOK
    <3> QED BY <1>3, <2>1, <2>2, <2>4, <3>1
  <2> QED BY <2>3, <2>4
<1>8. CASE ~ (PersistReceipt \/ Checkpoint \/ ApplyLabel)
  <2>1. bot' = bot /\ claimed' = claimed /\ settled' \subseteq settled
    BY <1>8 DEF Next, vars, queue, Comment, Triage, Tick, Start, Stop
  <2> QED BY <1>3, <1>4, <2>1
<1> QED BY <1>5, <1>6, <1>7, <1>8

\* Once the last run on an issue went through, its label and its record agree,
\* wherever earlier runs stopped between the two.
THEOREM LabelFollowsStateHolds == Spec => []LabelFollowsState
<1>1. LabelInv /\ [Next]_vars => LabelInv'
  <2> SUFFICES ASSUME LabelInv, [Next]_vars PROVE LabelInv'
    OBVIOUS
  <2>1. ReplayInv'
    BY CooldownStep, PostsNext, RunNext DEF LabelInv, ReplayInv
  <2> QED BY <2>1, LabelHasClaimNext, LabelInHandNext, FollowsNext DEF LabelInv
<1>2. LabelInv => LabelFollowsState
  BY DEF LabelInv
<1> QED BY <1>1, <1>2, LabelInit, PTL DEF Spec

=============================================================================
