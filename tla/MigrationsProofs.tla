--------------------------- MODULE MigrationsProofs --------------------------
(***************************************************************************)
(* The migration log has no gaps, and a service that starts finds the      *)
(* schema of the scripts logged, for any number of commands and stops.     *)
(***************************************************************************)
EXTENDS Migrations, FiniteSetTheorems, TLAPS

\* A command that undoes runs alone.
UndoneAlone ==
    \A q, r \in Runners : Undoing(q) /\ q # r => pc[r] = "idle"

\* While a command works it has all scripts of its direction that come before
\* those it has still to handle: behind it, in the log, or still to handle.
TodoInOrder ==
    \A r \in Runners : pc[r] \in {"check", "script", "log"} =>
        /\ command[r] = "up" =>
             \A s \in todo[r] : \A t \in Scripts : t < s => t \in todo[r] \cup log
        /\ command[r] = "down" =>
             \A s \in todo[r] : \A t \in log : s < t => t \in todo[r]

\* A script about to be handled is one the command has to handle, and one
\* about to be logged has run.
ScriptsRun ==
    \A r \in Runners :
        /\ pc[r] \in {"script", "log"} => todo[r] # {}
        /\ pc[r] = "log" /\ command[r] = "up" => Following(r) \in schema

LoggedExists == log \subseteq schema \cup torn

MigrationInv ==
    /\ TypeOK
    /\ UndoneAlone
    /\ TodoInOrder
    /\ ScriptsRun
    /\ LoggedExists
    /\ LoggedInOrder

\* The first script of a set, and the last.
LEMMA Extremes ==
    ASSUME NEW S \in SUBSET Scripts, S # {}
    PROVE  /\ \E s \in S : \A t \in S : s <= t
           /\ \E s \in S : \A t \in S : s >= t
<1>1. S \subseteq {1, 2, 3}
    BY DEF Scripts
<1>2. CASE 1 \in S
    BY <1>1, <1>2
<1>3. CASE 1 \notin S /\ 2 \in S
    BY <1>1, <1>3
<1>4. CASE 1 \notin S /\ 2 \notin S
    <2>1. S = {3}
        BY <1>1, <1>4
    <2>2. QED
        BY <2>1
<1>5. QED
    BY <1>2, <1>3, <1>4

\* The script that follows is the first to do of an up, the last of a down.
LEMMA FollowingFirst ==
    ASSUME TypeOK, NEW r \in Runners, todo[r] # {}
    PROVE  /\ Following(r) \in todo[r]
           /\ Following(r) \in Scripts
           /\ \A t \in todo[r] : Before(r, Following(r), t)
<1>1. todo[r] \in SUBSET Scripts
    BY DEF TypeOK
<1>2. \E s \in todo[r] : \A t \in todo[r] : Before(r, s, t)
    BY <1>1, Extremes DEF Before
<1>3. QED
    BY <1>1, <1>2 DEF Following

LEMMA MigrationInvInit == Init => MigrationInv
<1> SUFFICES ASSUME Init PROVE MigrationInv
    OBVIOUS
<1>1. TypeOK
    <2>1. stops \in 0 .. MaxStops /\ undos \in 0 .. MaxUndos
        BY MigrationsAssumption DEF Init
    <2>2. schema \subseteq Scripts /\ log \subseteq Scripts /\ torn \subseteq Scripts
        BY DEF Init
    <2>3. QED
        BY <2>1, <2>2 DEF Init, TypeOK
<1>2. UndoneAlone /\ TodoInOrder /\ ScriptsRun
    BY DEF Init, UndoneAlone, Undoing, TodoInOrder, ScriptsRun
<1>3. LoggedExists /\ LoggedInOrder
    BY DEF Init, LoggedExists, LoggedInOrder
<1>4. QED
    BY <1>1, <1>2, <1>3 DEF MigrationInv

LEMMA TypeNext ==
    ASSUME MigrationInv, [Next]_vars
    PROVE  TypeOK'
<1> USE MigrationsAssumption DEF MigrationInv, TypeOK
<1>1. ASSUME NEW r \in Runners, NEW to \in Scripts \cup {NoScript},
             MigrateUp(r, to) \/ MigrateDown(r, to)
      PROVE  TypeOK'
    BY <1>1 DEF MigrateUp, MigrateDown, Goto, dbVars
<1>2. ASSUME NEW r \in Runners, Look(r) \/ Plan(r) \/ Stop(r)
      PROVE  TypeOK'
    BY <1>2 DEF Look, Plan, Stop, Quit, Candidates, Pending, dbVars
<1>3. ASSUME NEW r \in Runners, Check(r)
      PROVE  TypeOK'
    BY <1>3 DEF Check, Quit, dbVars
<1>4. ASSUME NEW r \in Runners, RunUp(r) \/ RunDown(r) \/ LogUp(r) \/ LogDown(r)
      PROVE  TypeOK'
    <2>1. todo[r] # {} => Following(r) \in Scripts
        BY FollowingFirst
    <2>2. pc[r] \in {"script", "log"}
        BY <1>4 DEF RunUp, RunDown, LogUp, LogDown, Goto
    <2>3. Following(r) \in Scripts
        BY <2>1, <2>2 DEF ScriptsRun
    <2>4. QED
        BY <1>4, <2>3 DEF RunUp, RunDown, LogUp, LogDown, Goto, Quit
<1>5. CASE Start \/ StopService \/ UNCHANGED vars
    BY <1>5 DEF Start, StopService, dbVars, commandVars, vars
<1>6. QED
    BY <1>1, <1>2, <1>3, <1>4, <1>5 DEF Next, CommandStep

\* A step of one command leaves what the others hold; it runs beside an undo
\* only if it is the undo.
LEMMA OneRunner ==
    ASSUME MigrationInv, NEW r \in Runners, CommandStep(r) \/ Stop(r)
    PROVE  /\ pc[r] # "idle"
           /\ UNCHANGED <<command, target>>
           /\ \A q \in Runners : q # r => pc'[q] = pc[q] /\ todo'[q] = todo[q]
           /\ \A q \in Runners : q # r /\ pc[q] # "idle" => command[q] = "up" /\ command[r] = "up"
           /\ UndoneAlone'
<1> USE DEF MigrationInv
<1>1. pc[r] # "idle" /\ UNCHANGED <<command, target>>
    BY DEF CommandStep, Look, Plan, Check, RunUp, RunDown, LogUp, LogDown, Stop, Goto
<1>2. \A q \in Runners : q # r => pc'[q] = pc[q] /\ todo'[q] = todo[q]
    BY DEF TypeOK, CommandStep, Look, Plan, Check, RunUp, RunDown, LogUp, LogDown, Stop, Goto, Quit
<1>3. \A q \in Runners : q # r /\ pc[q] # "idle" => command[q] = "up" /\ command[r] = "up"
    BY <1>1 DEF UndoneAlone, Undoing, TypeOK
<1>4. UndoneAlone'
    BY <1>1, <1>2 DEF UndoneAlone, Undoing
<1>5. QED
    BY <1>1, <1>2, <1>3, <1>4

\* The other commands keep what they know while the log and the schema grow.
LEMMA OthersKept ==
    ASSUME MigrationInv, NEW r \in Runners, CommandStep(r) \/ Stop(r),
           command[r] = "up" => log \subseteq log' /\ schema \subseteq schema',
           NEW q \in Runners, q # r
    PROVE  /\ pc'[q] \in {"check", "script", "log"} =>
                /\ command'[q] = "up" =>
                     \A s \in todo'[q] : \A t \in Scripts : t < s => t \in todo'[q] \cup log'
                /\ command'[q] = "down" =>
                     \A s \in todo'[q] : \A t \in log' : s < t => t \in todo'[q]
           /\ pc'[q] \in {"script", "log"} => todo'[q] # {}
           /\ pc'[q] = "log" /\ command'[q] = "up" => Following(q)' \in schema'
<1>1. /\ pc'[q] = pc[q] /\ todo'[q] = todo[q] /\ command' = command
      /\ pc[q] # "idle" => command[q] = "up" /\ command[r] = "up"
    BY OneRunner
<1>2. Following(q)' = Following(q)
    BY <1>1 DEF Following, Before
<1>3. QED
    BY <1>1, <1>2 DEF MigrationInv, TodoInOrder, ScriptsRun

\* Of the command that moves: what it knows afterwards, and what becomes of
\* the log.
OwnKept(r) ==
    /\ pc'[r] \in {"check", "script", "log"} =>
         /\ command[r] = "up" =>
              \A s \in todo'[r] : \A t \in Scripts : t < s => t \in todo'[r] \cup log'
         /\ command[r] = "down" =>
              \A s \in todo'[r] : \A t \in log' : s < t => t \in todo'[r]
    /\ pc'[r] \in {"script", "log"} => todo'[r] # {}
    /\ pc'[r] = "log" /\ command[r] = "up" => Following(r)' \in schema'
    /\ command[r] = "up" => log \subseteq log' /\ schema \subseteq schema'
    /\ LoggedExists'
    /\ LoggedInOrder'

LEMMA OwnStep ==
    ASSUME MigrationInv, NEW r \in Runners, CommandStep(r) \/ Stop(r)
    PROVE  OwnKept(r)
<1> USE DEF MigrationInv, OwnKept
<1> DEFINE next == Following(r)
<1>1. command' = command /\ command[r] \in {"up", "down"}
    BY OneRunner DEF TypeOK
<1>2. todo[r] # {} => next \in todo[r] /\ next \in Scripts /\ \A t \in todo[r] : Before(r, next, t)
    BY FollowingFirst
<1>3. todo[r] \subseteq Scripts /\ log \subseteq Scripts /\ schema \subseteq Scripts
    BY DEF TypeOK
<1> HIDE DEF next
<1>4. CASE pc'[r] = "idle" /\ UNCHANGED <<log, schema, torn>>
    BY <1>4 DEF LoggedExists, LoggedInOrder
<1>5. CASE Look(r)
    BY <1>5 DEF Look, Quit, dbVars, LoggedExists, LoggedInOrder, TypeOK
<1>6. CASE Plan(r)
    <2>1. UNCHANGED <<log, schema, torn>>
        BY <1>6 DEF Plan, dbVars
    <2>2. CASE target[r] \in Candidates(r) \cup {NoScript}
        <3>1. /\ pc'[r] = "check"
              /\ todo'[r] = {s \in Candidates(r) : target[r] = NoScript \/ Before(r, s, target[r])}
            BY <1>6, <2>2 DEF Plan, TypeOK
        <3>2. target[r] \in Scripts \cup {NoScript}
            BY DEF TypeOK
        <3>3. CASE command[r] = "up"
            <4>1. \A s \in todo'[r] : \A t \in Scripts : t < s => t \in todo'[r] \cup log'
                BY <2>1, <3>1, <3>2, <3>3 DEF Candidates, Pending, Before, Scripts
            <4>2. QED
                BY <2>1, <3>1, <3>3, <4>1 DEF LoggedExists, LoggedInOrder
        <3>4. CASE command[r] = "down"
            <4>1. \A s \in todo'[r] : \A t \in log' : s < t => t \in todo'[r]
                <5>1. log' = log /\ \A s \in log : s \in Nat
                    BY <1>3, <2>1 DEF Scripts
                <5>2. CASE target[r] = NoScript
                    BY <3>1, <3>4, <5>1, <5>2 DEF Candidates
                <5>3. CASE target[r] \in Nat
                    BY <3>1, <3>4, <5>1, <5>3 DEF Candidates, Before
                <5>4. QED
                    BY <3>2, <5>2, <5>3 DEF Scripts
            <4>2. QED
                BY <2>1, <3>1, <3>4, <4>1 DEF LoggedExists, LoggedInOrder
        <3>5. QED
            BY <1>1, <3>3, <3>4
    <2>3. CASE target[r] \notin Candidates(r) \cup {NoScript}
        BY <1>4, <1>6, <2>1, <2>3 DEF Plan, Quit, TypeOK
    <2>4. QED
        BY <2>2, <2>3
<1>7. CASE Check(r)
    <2>1. UNCHANGED <<log, schema, torn>> /\ pc[r] = "check"
        BY <1>7 DEF Check, dbVars
    <2>2. CASE todo[r] = {}
        BY <1>4, <1>7, <2>1, <2>2 DEF Check, Quit, TypeOK
    <2>3. CASE todo[r] # {} /\ command[r] = "up" /\ next \in log
        <3>1. pc'[r] = "check" /\ todo'[r] = todo[r] \ {next}
            BY <1>7, <2>3 DEF Check, TypeOK, next
        <3>2. QED
            BY <2>1, <2>3, <3>1 DEF TodoInOrder, LoggedExists, LoggedInOrder
    <2>4. CASE todo[r] # {} /\ ~(command[r] = "up" /\ next \in log)
        <3>1. pc'[r] = "script" /\ todo'[r] = todo[r]
            BY <1>7, <2>4 DEF Check, TypeOK, next
        <3>2. QED
            BY <2>1, <2>4, <3>1 DEF TodoInOrder, LoggedExists, LoggedInOrder
    <2>5. QED
        BY <2>2, <2>3, <2>4
<1>8. CASE RunUp(r)
    <2>1. pc[r] = "script" /\ command[r] = "up" /\ log' = log /\ torn' = torn
        BY <1>8 DEF RunUp
    <2>2. CASE UpSucceeds(Following(r))
        <3>1. pc'[r] = "log" /\ todo' = todo /\ schema' = schema \cup {next}
            BY <1>8, <2>2 DEF RunUp, TypeOK, next
        <3>2. Following(r)' = next
            BY <1>1, <3>1 DEF Following, Before, next
        <3>3. QED
            BY <2>1, <3>1, <3>2 DEF TodoInOrder, ScriptsRun, LoggedExists, LoggedInOrder
    <2>3. CASE ~UpSucceeds(Following(r))
        BY <1>4, <1>8, <2>1, <2>3 DEF RunUp, Quit, TypeOK
    <2>4. QED
        BY <2>2, <2>3
<1>9. CASE RunDown(r)
    <2>1. pc[r] = "script" /\ command[r] = "down" /\ log' = log
        BY <1>9 DEF RunDown
    <2>2. CASE DownSucceeds(Following(r))
        <3>1. /\ pc'[r] = "log" /\ todo' = todo
              /\ schema' = schema \ Undone(next)
              /\ torn' = torn \cup (Undone(next) \cap log)
            BY <1>9, <2>2 DEF RunDown, TypeOK, next
        <3>2. QED
            BY <2>1, <3>1 DEF TodoInOrder, ScriptsRun, LoggedExists, LoggedInOrder
    <2>3. CASE ~DownSucceeds(Following(r))
        BY <1>4, <1>9, <2>1, <2>3 DEF RunDown, Quit, TypeOK
    <2>4. QED
        BY <2>2, <2>3
<1>10. CASE LogUp(r)
    <2>1. /\ pc[r] = "log" /\ command[r] = "up" /\ schema' = schema /\ torn' = torn
          /\ todo[r] # {} /\ next \in schema
        BY <1>10 DEF LogUp, ScriptsRun, next
    <2>2. CASE next \notin log
        <3>1. pc'[r] = "check" /\ todo'[r] = todo[r] \ {next} /\ log' = log \cup {next}
            BY <1>10, <2>2 DEF LogUp, TypeOK, next
        <3>2. \A t \in Scripts : t < next => t \in log
            BY <1>2, <1>3, <2>1 DEF TodoInOrder, Before, Scripts
        <3>3. LoggedInOrder'
            BY <3>1, <3>2 DEF LoggedInOrder
        <3>4. QED
            BY <2>1, <3>1, <3>3 DEF TodoInOrder, LoggedExists
    <2>3. CASE next \in log
        BY <1>4, <1>10, <2>1, <2>3 DEF LogUp, Quit, TypeOK, next
    <2>4. QED
        BY <2>2, <2>3
<1>11. CASE LogDown(r)
    <2>1. /\ pc[r] = "log" /\ command[r] = "down" /\ schema' = schema /\ todo[r] # {}
          /\ pc'[r] = "check" /\ todo'[r] = todo[r] \ {next}
          /\ log' = log \ {next} /\ torn' = torn \ {next}
        BY <1>11 DEF LogDown, Goto, ScriptsRun, TypeOK, next
    <2>2. \A t \in log : next < t => FALSE
        BY <1>2, <1>3, <2>1 DEF TodoInOrder, Before, Scripts
    <2>3. LoggedInOrder'
        BY <1>2, <1>3, <2>1, <2>2 DEF LoggedInOrder, Scripts
    <2>4. LoggedExists'
        BY <2>1 DEF LoggedExists
    <2>5. \A s \in todo'[r] : \A t \in log' : s < t => t \in todo'[r]
        BY <2>1 DEF TodoInOrder
    <2>6. QED
        BY <2>1, <2>3, <2>4, <2>5
<1>12. CASE Stop(r)
    BY <1>4, <1>12 DEF Stop, Quit, dbVars, TypeOK
<1>13. QED
    BY <1>5, <1>6, <1>7, <1>8, <1>9, <1>10, <1>11, <1>12 DEF CommandStep

LEMMA CommandStepInv ==
    ASSUME MigrationInv, NEW r \in Runners, CommandStep(r) \/ Stop(r)
    PROVE  TodoInOrder' /\ ScriptsRun' /\ LoggedExists' /\ LoggedInOrder'
<1>1. command' = command
    BY OneRunner
<1>2. OwnKept(r)
    BY OwnStep
<1>3. TodoInOrder'
    <2>1. \A q \in Runners : pc'[q] \in {"check", "script", "log"} =>
             /\ command'[q] = "up" =>
                  \A s \in todo'[q] : \A t \in Scripts : t < s => t \in todo'[q] \cup log'
             /\ command'[q] = "down" =>
                  \A s \in todo'[q] : \A t \in log' : s < t => t \in todo'[q]
        BY <1>1, <1>2, OthersKept DEF OwnKept
    <2>2. QED
        BY <2>1 DEF TodoInOrder
<1>4. ScriptsRun'
    <2>1. \A q \in Runners :
             /\ pc'[q] \in {"script", "log"} => todo'[q] # {}
             /\ pc'[q] = "log" /\ command'[q] = "up" => Following(q)' \in schema'
        BY <1>1, <1>2, OthersKept DEF OwnKept
    <2>2. QED
        BY <2>1 DEF ScriptsRun
<1>5. QED
    BY <1>2, <1>3, <1>4 DEF OwnKept

LEMMA OtherStepInv ==
    ASSUME MigrationInv,
           \/ \E r \in Runners, to \in Scripts \cup {NoScript} : MigrateUp(r, to) \/ MigrateDown(r, to)
           \/ Start
           \/ StopService
           \/ UNCHANGED vars
    PROVE  MigrationInv'
<1> USE DEF MigrationInv
<1>1. TypeOK'
    BY TypeNext DEF Next
<1>2. ASSUME NEW r \in Runners, NEW to \in Scripts \cup {NoScript},
             MigrateUp(r, to) \/ MigrateDown(r, to)
      PROVE  MigrationInv'
    <2>1. /\ pc[r] = "idle" /\ pc'[r] = "look" /\ UNCHANGED <<schema, log, torn, todo>>
          /\ \A q \in Runners : q # r => pc'[q] = pc[q] /\ command'[q] = command[q]
        BY <1>2 DEF MigrateUp, MigrateDown, Goto, dbVars, TypeOK
    <2>2. \/ command'[r] = "up" /\ \A q \in Runners : ~Undoing(q)
          \/ \A q \in Runners : pc[q] = "idle"
        BY <1>2 DEF MigrateUp, MigrateDown, TypeOK
    <2>3. UndoneAlone'
        BY <2>1, <2>2 DEF UndoneAlone, Undoing
    <2>4. TodoInOrder'
        BY <2>1 DEF TodoInOrder
    <2>5. ScriptsRun'
        <3>1. ASSUME NEW q \in Runners, q # r PROVE Following(q)' = Following(q)
            BY <2>1, <3>1 DEF Following, Before
        <3>2. \A q \in Runners :
                 /\ pc'[q] \in {"script", "log"} => todo'[q] # {}
                 /\ pc'[q] = "log" /\ command'[q] = "up" => Following(q)' \in schema'
            BY <2>1, <3>1 DEF ScriptsRun
        <3>3. QED
            BY <3>2 DEF ScriptsRun
    <2>6. LoggedExists' /\ LoggedInOrder'
        BY <2>1 DEF LoggedExists, LoggedInOrder
    <2>7. QED
        BY <1>1, <2>3, <2>4, <2>5, <2>6
<1>3. CASE Start \/ StopService \/ UNCHANGED vars
    <2>1. UNCHANGED <<dbVars, commandVars>>
        BY <1>3 DEF Start, StopService, vars
    <2>2. UndoneAlone' /\ TodoInOrder' /\ LoggedExists' /\ LoggedInOrder'
        BY <2>1 DEF dbVars, commandVars, UndoneAlone, Undoing, TodoInOrder, LoggedExists,
               LoggedInOrder
    <2>3. ScriptsRun'
        BY <2>1 DEF dbVars, commandVars, ScriptsRun, Following, Before
    <2>4. QED
        BY <1>1, <2>2, <2>3
<1>4. QED
    BY <1>2, <1>3

LEMMA MigrationInvNext ==
    ASSUME MigrationInv, [Next]_vars
    PROVE  MigrationInv'
<1>1. ASSUME NEW r \in Runners, CommandStep(r) \/ Stop(r)
      PROVE  MigrationInv'
    <2>1. TypeOK'
        BY TypeNext
    <2>2. UndoneAlone'
        BY <1>1, OneRunner
    <2>3. TodoInOrder' /\ ScriptsRun' /\ LoggedExists' /\ LoggedInOrder'
        BY <1>1, CommandStepInv
    <2>4. QED
        BY <2>1, <2>2, <2>3 DEF MigrationInv
<1>2. CASE \/ \E r \in Runners, to \in Scripts \cup {NoScript} :
                 MigrateUp(r, to) \/ MigrateDown(r, to)
           \/ Start
           \/ StopService
           \/ UNCHANGED vars
    BY <1>2, OtherStepInv
<1>3. QED
    BY <1>1, <1>2 DEF Next

\* The log of executed scripts has no gaps, whatever commands overlap, stop
\* or fail: each script is logged after those before it, and taken from the
\* log after those behind it (migrate, undo).
THEOREM LogHasNoGaps == Spec => []LoggedInOrder
<1>1. MigrationInv => LoggedInOrder
    BY DEF MigrationInv
<1>2. QED
    BY <1>1, MigrationInvInit, MigrationInvNext, PTL DEF Spec

\* A service that passes migrationCheck finds every table and column of the
\* scripts, except those an undo took away without coming to log it.
THEOREM StartsOnSchema == Spec => StartsMigrated
<1>1. MigrationInv /\ [Next]_vars => [~service /\ service' => Scripts \ schema \subseteq torn]_vars
    <2> SUFFICES ASSUME MigrationInv, Next, ~service, service'
                 PROVE  Scripts \ schema \subseteq torn
        OBVIOUS
    <2>1. Start
        BY DEF Next, CommandStep, MigrateUp, MigrateDown, Look, Plan, Check, RunUp, RunDown, LogUp,
               LogDown, Stop, StopService
    <2>2. QED
        BY <2>1 DEF Start, Pending, MigrationInv, LoggedExists
<1>2. QED
    BY <1>1, MigrationInvInit, MigrationInvNext, PTL DEF Spec, StartsMigrated

-----------------------------------------------------------------------------
(***************************************************************************)
(* The log as a version: without gaps it is as high as it is large.        *)
(***************************************************************************)
LEMMA ScriptsCounted == IsFiniteSet(Scripts) /\ Cardinality(Scripts) = 3
<1>1. 1 \in Int /\ 3 \in Int
    OBVIOUS
<1>2. IsFiniteSet(Scripts) /\ Cardinality(Scripts) = (IF 1 > 3 THEN 0 ELSE 3 - 1 + 1)
    BY <1>1, FS_Interval, Zenon DEF Scripts
<1>3. QED
    BY <1>2

LEMMA NoGaps ==
    ASSUME NEW L \in SUBSET Scripts, \A s \in L : \A t \in Scripts : t < s => t \in L
    PROVE  /\ {s \in Scripts : \A t \in Scripts : t <= s => t \in L} = L
           /\ IsFiniteSet(L)
           /\ Cardinality(L) \in 0 .. 3
<1>1. \A s \in Scripts : s \in L <=> \A t \in Scripts : t <= s => t \in L
    BY DEF Scripts
<1>2. {s \in Scripts : \A t \in Scripts : t <= s => t \in L} = L
    BY <1>1
<1>3. IsFiniteSet(L) /\ Cardinality(L) <= 3 /\ Cardinality(L) \in Nat
    BY ScriptsCounted, FS_Subset, FS_CardinalityType
<1>4. QED
    BY <1>2, <1>3

LEMMA VersionCounts ==
    ASSUME log \subseteq Scripts, LoggedInOrder
    PROVE  /\ LoggedVersion = Cardinality(log)
           /\ IsFiniteSet(log)
           /\ LoggedVersion \in 0 .. 3
<1>1. /\ {s \in Scripts : \A t \in Scripts : t <= s => t \in log} = log
      /\ IsFiniteSet(log)
      /\ Cardinality(log) \in 0 .. 3
    BY NoGaps, Zenon DEF LoggedInOrder
<1>2. QED
    BY <1>1, Zenon DEF LoggedVersion

LEMMA VersionCountsNext ==
    ASSUME log' \subseteq Scripts, LoggedInOrder'
    PROVE  LoggedVersion' = Cardinality(log') /\ LoggedVersion' \in 0 .. 3
<1>1. /\ {s \in Scripts : \A t \in Scripts : t <= s => t \in log'} = log'
      /\ Cardinality(log') \in 0 .. 3
    BY NoGaps, Zenon DEF LoggedInOrder
<1>2. QED
    BY <1>1, Zenon DEF LoggedVersion

SomeoneUndoes == \E r \in Runners : Undoing(r)

\* An up runs while nobody undoes; an undo ends with the command.
LEMMA UndoOfRunner ==
    ASSUME MigrationInv, NEW r \in Runners, CommandStep(r) \/ Stop(r)
    PROVE  /\ command[r] = "up" => ~SomeoneUndoes /\ ~SomeoneUndoes'
           /\ command[r] = "down" => SomeoneUndoes
           /\ command[r] = "down" => (SomeoneUndoes' <=> pc'[r] # "idle")
<1>1. /\ pc[r] # "idle"
      /\ command' = command
      /\ \A q \in Runners : q # r => pc'[q] = pc[q]
      /\ \A q \in Runners : q # r /\ pc[q] # "idle" => command[q] = "up" /\ command[r] = "up"
    BY OneRunner
<1>2. \A q \in Runners : q # r => ~Undoing(q) /\ ~Undoing(q)'
    BY <1>1 DEF Undoing
<1>3. QED
    BY <1>1, <1>2 DEF SomeoneUndoes, Undoing

VersionStep == [Version!VersionNext]_(Version!versionVars)

LEMMA CommandStepVersion ==
    ASSUME MigrationInv, MigrationInv', NEW r \in Runners, CommandStep(r) \/ Stop(r)
    PROVE  VersionStep
<1> DEFINE next == Following(r)
<1>1. service' = service
    BY DEF CommandStep, Look, Plan, Check, RunUp, RunDown, LogUp, LogDown, Stop
<1>2. command[r] \in {"up", "down"}
    BY DEF MigrationInv, TypeOK
<1>3. pc[r] = "log" => next \in todo[r] /\ next \in Scripts /\ \A t \in todo[r] : Before(r, next, t)
    BY FollowingFirst DEF MigrationInv, ScriptsRun
<1>4. /\ LoggedVersion = Cardinality(log) /\ IsFiniteSet(log) /\ LoggedVersion \in 0 .. 3
      /\ LoggedVersion' = Cardinality(log') /\ LoggedVersion' \in 0 .. 3
    BY VersionCounts, VersionCountsNext DEF MigrationInv, TypeOK
<1> HIDE DEF next
<1>5. CASE log' = log
    <2>1. LoggedVersion' = LoggedVersion
        BY <1>5 DEF LoggedVersion
    <2>2. \/ SomeoneUndoes' <=> SomeoneUndoes
          \/ SomeoneUndoes /\ ~SomeoneUndoes'
        BY <1>2, UndoOfRunner
    <2>3. QED
        BY <1>1, <2>1, <2>2 DEF VersionStep, Version!versionVars, Version!VersionNext,
               Version!EndUndo, SomeoneUndoes
<1>6. CASE log' # log
    <2>1. LogUp(r) \/ LogDown(r)
        BY <1>6 DEF CommandStep, Look, Plan, Check, RunUp, RunDown, Stop, dbVars
    <2>2. CASE LogUp(r)
        <3>1. log' = log \cup {next} /\ next \notin log /\ command[r] = "up"
            BY <1>6, <2>2 DEF LogUp, next
        <3>2. LoggedVersion' = LoggedVersion + 1
            BY <1>4, <3>1, FS_AddElement
        <3>3. QED
            BY <1>1, <1>4, <3>1, <3>2, UndoOfRunner DEF VersionStep, Version!VersionNext,
                   Version!Upgrade, SomeoneUndoes, UploadClientTable
    <2>3. CASE LogDown(r)
        <3>1. log' = log \ {next} /\ next \in log /\ command[r] = "down" /\ pc'[r] = "check"
            BY <1>6, <2>3 DEF LogDown, Goto, next, MigrationInv, TypeOK
        <3>2. LoggedVersion' = LoggedVersion - 1
            BY <1>4, <3>1, FS_RemoveElement
        <3>3. QED
            BY <1>1, <1>4, <3>1, <3>2, UndoOfRunner DEF VersionStep, Version!VersionNext,
                   Version!Downgrade, SomeoneUndoes
    <2>4. QED
        BY <2>1, <2>2, <2>3
<1>7. QED
    BY <1>5, <1>6

LEMMA OtherStepVersion ==
    ASSUME MigrationInv,
           \/ \E r \in Runners, to \in Scripts \cup {NoScript} : MigrateUp(r, to) \/ MigrateDown(r, to)
           \/ Start
           \/ StopService
           \/ UNCHANGED vars
    PROVE  VersionStep
<1>1. LoggedVersion' = LoggedVersion
    BY DEF MigrateUp, MigrateDown, Start, StopService, dbVars, vars, LoggedVersion
<1>2. ASSUME NEW r \in Runners, NEW to \in Scripts \cup {NoScript}, MigrateUp(r, to)
      PROVE  VersionStep
    <2>1. ~SomeoneUndoes /\ ~SomeoneUndoes'
        BY <1>2 DEF MigrateUp, Goto, SomeoneUndoes, Undoing, MigrationInv, TypeOK
    <2>2. QED
        BY <1>1, <1>2, <2>1 DEF VersionStep, Version!versionVars, SomeoneUndoes, MigrateUp
<1>3. ASSUME NEW r \in Runners, NEW to \in Scripts \cup {NoScript}, MigrateDown(r, to)
      PROVE  VersionStep
    <2>1. ~SomeoneUndoes /\ SomeoneUndoes'
        BY <1>3 DEF MigrateDown, Goto, SomeoneUndoes, Undoing, MigrationInv, TypeOK
    <2>2. QED
        BY <1>1, <1>3, <2>1 DEF VersionStep, Version!VersionNext, Version!BeginUndo, SomeoneUndoes,
               MigrateDown
<1>4. CASE Start \/ StopService \/ UNCHANGED vars
    <2>1. SomeoneUndoes' <=> SomeoneUndoes
        BY <1>4 DEF Start, StopService, commandVars, vars, SomeoneUndoes, Undoing
    <2>2. CASE Start
        <3>1. log = Scripts
            BY <2>2 DEF Start, Pending, MigrationInv, TypeOK
        <3>2. LoggedVersion = 3
            BY <3>1, VersionCounts, ScriptsCounted DEF MigrationInv, TypeOK
        <3>3. QED
            BY <1>1, <2>1, <2>2, <3>2 DEF Start, VersionStep, Version!VersionNext,
                   Version!StartService, SomeoneUndoes, UploadClientTable
    <2>3. CASE StopService
        BY <1>1, <2>1, <2>3 DEF StopService, VersionStep, Version!VersionNext,
               Version!StopService, SomeoneUndoes
    <2>4. CASE UNCHANGED vars
        BY <1>1, <2>1, <2>4 DEF vars, VersionStep, Version!versionVars, SomeoneUndoes
    <2>5. QED
        BY <1>4, <2>2, <2>3, <2>4
<1>5. QED
    BY <1>2, <1>3, <1>4

\* Commands that overlap, fail and stop half-way move the log by one script
\* at a time, up only while nobody undoes, and migrationCheck lets the
\* service start at the last script only.
THEOREM VersionImplemented == Spec => ImplementsVersion
<1>1. Init => Version!VersionInit
    <2> SUFFICES ASSUME Init PROVE Version!VersionInit
        OBVIOUS
    <2>1. log = {} /\ LoggedInOrder
        BY DEF Init, LoggedInOrder
    <2>2. LoggedVersion = 0
        BY <2>1, VersionCounts, FS_EmptySet
    <2>3. ~SomeoneUndoes /\ service = FALSE
        BY DEF Init, SomeoneUndoes, Undoing
    <2>4. QED
        BY <2>2, <2>3 DEF Version!VersionInit, SomeoneUndoes
<1>2. MigrationInv /\ MigrationInv' /\ [Next]_vars => VersionStep
    BY CommandStepVersion, OtherStepVersion DEF Next
<1>3. QED
    BY <1>1, <1>2, MigrationInvInit, MigrationInvNext, PTL
       DEF Spec, ImplementsVersion, Version!VersionSpec, VersionStep
=============================================================================
