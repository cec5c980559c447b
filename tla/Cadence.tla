------------------------------- MODULE Cadence -------------------------------
(***************************************************************************)
(* When full check runs take place: cron calls run_checks.sh every hour,   *)
(* which starts start.py unless it still runs.  start.py first gathers     *)
(* random transactions of both nets (start.py:28-37), with as many         *)
(* requests as that takes, and then main ends at once unless the Nth       *)
(* youngest row of oig.results is by then more than two hours old          *)
(* (db_connect.getLastcheck, OFFSET 9: Nth is 10).  The results of a run   *)
(* bear the time of each check and are inserted together at the end;       *)
(* rescans of single guilds by backend/main.py go to the same table.       *)
(*                                                                         *)
(* Time passes in ticks, the resolution of the strftime() in lastCheck: an *)
(* hour has Hour of them (60 in the code).  A rescan takes less than a     *)
(* tick.  The times in the rows are those of utcnow() (start.py:213), and  *)
(* lastCheck compares them with now() (start.py:297): the clock of the     *)
(* server shows UTC.                                                       *)
(***************************************************************************)
EXTENDS Naturals, Sequences, FiniteSets, Functions

CONSTANTS
    Hour,         \* ticks per hour
    Guilds,       \* number of active guilds
    Nth,          \* the youngest row but Nth - 1 decides
    InitialRows,  \* rows in oig.results at first, just old enough
    MaxImport,    \* bound on the time before main, in ticks
    MaxRun,       \* bound on the duration of a full run, in ticks
    Fails,        \* whether start.py may end with an exception
    Rescans       \* whether guilds are rescanned

ASSUME ConstantsAssumption ==
    /\ Hour \in Nat \ {0, 1} /\ Guilds \in Nat \ {0} /\ Nth \in Nat \ {0}
    /\ InitialRows \in 0..Nth /\ MaxImport \in Nat /\ MaxRun \in Nat
    /\ Fails \in BOOLEAN /\ Rescans \in BOOLEAN

Old == 2 * Hour + 2          \* the least age with age - 1 > two hours
MaxAge == 3 * Hour + 2       \* where ages stop
MaxSince == 3 * Hour + 2 + MaxImport + MaxRun  \* where `since' stops
Idle == Guilds + 1           \* no full run goes on

VARIABLES
    phase,    \* ticks past the hour
    due,      \* cron has a call of run_checks.sh to make
    results,  \* ages of the Nth youngest rows of oig.results, youngest first
    importing, \* start.py runs, and has not come to main
    left,     \* guilds the full run has yet to check, or Idle
    buffer,   \* finaltuple: ages of its Nth youngest results
    elapsed,  \* duration of the import, or of the full run, so far
    since,    \* age of the last insertion by a full run
    begun,    \* age of the beginning of that run
    scans,    \* number of rescans after the insertion, up to Nth
    failed    \* whether start.py failed after it

ghosts == <<since, begun, scans, failed>>
vars == <<phase, due, results, importing, left, buffer, elapsed, ghosts>>

Least(m, n) == IF m <= n THEN m ELSE n

\* Mutant: the query has no LIMIT, so lastCheck sees older rows too.
Unlimited(ages) == ages

Youngest(ages) == SubSeq(ages, 1, Least(Nth, Len(ages)))
Aged(ages) == [i \in DOMAIN ages |-> Least(ages[i] + 1, MaxAge)]
Running == left # Idle
Alive == importing \/ Running

TypeOK ==
    /\ phase \in 0..(Hour - 1)
    /\ due \in BOOLEAN
    /\ results \in Seq(0..MaxAge) /\ Len(results) <= Nth
    /\ \A i, j \in DOMAIN results : i < j => results[i] <= results[j]
    /\ importing \in BOOLEAN
    /\ left \in 0..Idle
    /\ buffer \in Seq(0..MaxAge) /\ Len(buffer) <= Nth
    /\ elapsed \in 0..(IF importing THEN MaxImport ELSE MaxRun)
    /\ since \in 0..MaxSince /\ begun \in 0..MaxAge
    /\ scans \in 0..Nth
    /\ failed \in BOOLEAN

Init ==
    /\ phase = 0 /\ due = TRUE
    /\ results = [i \in 1..InitialRows |-> Old]
    /\ importing = FALSE /\ left = Idle /\ buffer = <<>> /\ elapsed = 0
    /\ since = Old /\ begun = MaxAge /\ scans = 0 /\ failed = FALSE

\* A tick waits for cron, and for the end of an import that takes MaxImport
\* ticks and of a run that takes MaxRun.
Tick ==
    /\ ~due
    /\ importing => elapsed < MaxImport
    /\ Running => elapsed < MaxRun
    /\ phase' = (phase + 1) % Hour
    /\ due' = (phase' = 0)
    /\ results' = Aged(results)
    /\ buffer' = Aged(buffer)
    /\ elapsed' = IF Alive THEN elapsed + 1 ELSE 0
    /\ since' = Least(since + 1, MaxSince)
    /\ begun' = Least(begun + 1, MaxAge)
    /\ UNCHANGED <<importing, left, scans, failed>>

\* Mutants: main calls lastCheck with one hour or with three for the two.
LastCheckOneHour == Len(results) = Nth /\ results[Nth] - 1 > Hour
LastCheckThreeHours == Len(results) = Nth /\ results[Nth] - 1 > 3 * Hour

\* lastCheck: now is a minute ago, and the comparison is strict.  Where there
\* are fewer than Nth rows it raises an IndexError, even for a caller that
\* ignores the result.
LastCheck == Len(results) = Nth /\ results[Nth] - 1 > 2 * Hour

\* run_checks.sh: start.py is started unless its process is still there.
CronStarts ==
    /\ due /\ ~Alive
    /\ due' = FALSE
    /\ importing' = TRUE
    /\ UNCHANGED <<phase, results, left, buffer, elapsed, ghosts>>

CronSkips ==
    /\ due /\ Alive
    /\ due' = FALSE
    /\ UNCHANGED <<phase, results, importing, left, buffer, elapsed, ghosts>>

\* The beginning of start.main: the run starts, or start.py ends.
RunStarts ==
    /\ importing /\ LastCheck
    /\ importing' = FALSE /\ left' = Guilds /\ elapsed' = 0
    /\ UNCHANGED <<phase, due, results, buffer, ghosts>>

TooEarly ==
    /\ importing /\ ~LastCheck
    /\ importing' = FALSE /\ elapsed' = 0
    /\ UNCHANGED <<phase, due, results, left, buffer, ghosts>>

\* finalresults, one guild: the result bears the time of its check.
CheckGuild ==
    /\ Running /\ left > 0
    /\ left' = left - 1
    /\ buffer' = Youngest(<<0>> \o buffer)
    /\ UNCHANGED <<phase, due, results, importing, elapsed, ghosts>>

\* ORDER BY date_check DESC: fewer than k rows are younger than the one in
\* place k, and at least k are not older.
ByAge(ages) ==
    LET younger(age) == {i \in DOMAIN ages : ages[i] < age}
        notOlder(age) == {i \in DOMAIN ages : ages[i] <= age}
    IN [k \in DOMAIN ages |->
          CHOOSE age \in Range(ages) :
              Cardinality(younger(age)) < k /\ k <= Cardinality(notOlder(age))]

\* resultsInsert, and what getLastcheck will see of it.
Insert(rows) == results' = Youngest(ByAge(rows \o results))

\* The end of a full run.
Save ==
    /\ Running /\ left = 0
    /\ Insert(buffer)
    /\ since' = 0 /\ begun' = Least(elapsed, MaxAge)
    /\ scans' = 0 /\ failed' = FALSE
    /\ left' = Idle /\ buffer' = <<>> /\ elapsed' = 0
    /\ UNCHANGED <<phase, due, importing>>

\* Mutant: each result is inserted as soon as its guild is checked.
FailKeeps ==
    /\ Fails /\ Alive
    /\ Insert(buffer)
    /\ importing' = FALSE /\ left' = Idle /\ buffer' = <<>> /\ elapsed' = 0
    /\ failed' = TRUE
    /\ UNCHANGED <<phase, due, since, begun, scans>>

\* An exception ends start.py, or it finds no producers (start.py:312-314):
\* what it gathered is lost.
Fail ==
    /\ Fails /\ Alive
    /\ importing' = FALSE /\ left' = Idle /\ buffer' = <<>> /\ elapsed' = 0
    /\ failed' = TRUE
    /\ UNCHANGED <<phase, due, results, since, begun, scans>>

\* A rescan, which does not come past lastCheck either where rows are missing.
Rescan ==
    /\ Rescans /\ Len(results) = Nth
    /\ Insert(<<0>>)
    /\ scans' = Least(scans + 1, Nth)
    /\ UNCHANGED <<phase, due, importing, left, buffer, elapsed, since, begun,
                   failed>>

Next == \/ Tick \/ CronStarts \/ CronSkips \/ RunStarts \/ TooEarly
        \/ CheckGuild \/ Save \/ Fail \/ Rescan

Spec == Init /\ [][Next]_vars
-----------------------------------------------------------------------------
\* Properties

\* Full runs begin more than two hours apart (start.py:300), however long
\* start.py took to come to main, and whatever was rescanned or failed in
\* between: where there are enough guilds, and the earlier run saved its
\* results.
FullRunsApart == [][RunStarts /\ Guilds >= Nth => begun > 2 * Hour + 1]_vars

\* Nothing but a full run's own results, or Nth rescans, make start.py end at
\* its check: if it comes to main more than two hours and a minute after the
\* last full run saved its results it starts a new one, however many runs
\* failed before, as these leave no trace in oig.results (start.py:39-55, 343).
OverdueRunStarts ==
    [][TooEarly /\ Len(results) = Nth /\ scans < Nth
          => since <= 2 * Hour + 1]_vars

\* Where no run fails and fewer than Nth guilds are rescanned in between, new
\* results of all guilds come every three hours and a minute, give or take the
\* time that start.py takes before main and for the checks, even if either is
\* more than an hour (run_checks.sh:13, start.py:50).
ResultsEveryThreeHours ==
    InitialRows = Nth /\ ~failed /\ scans < Nth =>
        since <= 3 * Hour + 1 + MaxImport + MaxRun
=============================================================================
