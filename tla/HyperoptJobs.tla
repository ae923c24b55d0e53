----------------------------- MODULE HyperoptJobs -----------------------------
(***************************************************************************)
(* A search over execution parameters that runs inside the server process  *)
(* and reports through its row: the grid search and its Bayesian variant.  *)
(* A set of parameters is the number of its evaluation.  What the backtest *)
(* makes of it is any score, or nothing when it throws or has no           *)
(* out-of-sample report.                                                   *)
(***************************************************************************)
EXTENDS Integers, Sequences, FiniteSets

CONSTANTS Budget,    \* combinations of the grid, or samples of the Bayesian run
          TopN,      \* length of the leaderboard
          Flushes,   \* how often progress is written (20 in the code)
          Warmup,    \* samples, and results, needed before the pool is used
          Quarter,   \* one in how many results is good (4 in the code)
          Scores,    \* what a backtest may score
          DbFailures \* bound: database calls that fail

ASSUME SearchAssumption ==
  /\ Budget \in Nat \ {0} /\ TopN \in Nat \ {0} /\ Flushes \in Nat \ {0}
  /\ Warmup \in Nat /\ Quarter \in Nat \ {0} /\ DbFailures \in Nat
  /\ Scores \subseteq Int

VARIABLES kind,     \* "grid" or "bayesian"
          run,      \* the row
          job,      \* where runJob is
          results,  \* its results array
          tried,    \* how many combinations it has evaluated
          dbErrors  \* database calls that failed

searchVars == <<kind, run, job, results, tried, dbErrors>>

None == 0   \* bestParams is null

FlushEvery == LET share == Budget \div Flushes IN IF share = 0 THEN 1 ELSE share

RunRow == [status : {"absent", "pending", "running", "done", "failed"}, completed : 0..Budget,
           leaderboard : UNION {[1..n -> 1..Budget] : n \in 0..TopN}, best : 0..Budget]
Result == [params : 1..Budget, score : Scores, near : 0..Budget]

SearchTypeOK ==
  /\ kind \in {"grid", "bayesian"} /\ run \in RunRow
  /\ job \in {"none", "created", "started", "searching", "finishing", "failing"}
  /\ results \in Seq(Result) /\ tried \in 0..Budget /\ dbErrors \in 0..DbFailures

SearchInit ==
  /\ kind \in {"grid", "bayesian"}
  /\ run = [status |-> "absent", completed |-> 0, leaderboard |-> <<>>, best |-> None]
  /\ job = "none" /\ results = <<>> /\ tried = 0 /\ dbErrors = 0

(* An update of a row that was deleted changes nothing and reports no error. *)
Updated(row) == IF run.status = "absent" THEN run ELSE row

(* POST: the row is created and the job started without waiting for it. *)
StartSearch ==
  /\ job = "none" /\ run.status = "absent" /\ tried = 0
  /\ run' = [run EXCEPT !.status = "pending"]
  /\ job' = "created"
  /\ UNCHANGED <<kind, results, tried, dbErrors>>

(* runJob finds its row, or ends silently. *)
BeginSearch ==
  /\ job = "created"
  /\ IF run.status = "absent" THEN job' = "none" /\ UNCHANGED run
     ELSE job' = "started" /\ run' = [run EXCEPT !.status = "running"]
  /\ UNCHANGED <<kind, results, tried, dbErrors>>

(* The bars arrive; fewer than a hundred of them end the run. *)
LoadBars ==
  /\ job = "started"
  /\ \/ job' = "searching" /\ UNCHANGED run
     \/ job' = "none" /\ run' = Updated([run EXCEPT !.status = "failed"])
     \/ job' = "failing" /\ UNCHANGED run
  /\ UNCHANGED <<kind, results, tried, dbErrors>>

(* The sort by score is stable: a result comes behind those that scored    *)
(* more, and behind those before it that scored the same.                  *)
Outranks(list, j, i) == list[j].score > list[i].score \/ (list[j].score = list[i].score /\ j < i)
Rank(list, i) == 1 + Cardinality({j \in DOMAIN list : Outranks(list, j, i)})
SortedByScore(list) == [k \in DOMAIN list |-> list[CHOOSE i \in DOMAIN list : Rank(list, i) = k]]
Leaders(list, n) == SubSeq(list, 1, IF Len(list) < n THEN Len(list) ELSE n)

(* The results a Bayesian sample may be drawn around: none while it warms  *)
(* up, then the best quarter.                                              *)
GoodPool ==
  LET quarter == Len(results) \div Quarter
      pool == Leaders(SortedByScore(results), IF quarter = 0 THEN 1 ELSE quarter)
  IN IF kind = "grid" \/ tried < Warmup \/ Len(results) < Warmup THEN {None}
     ELSE {pool[i].params : i \in DOMAIN pool}

(* One combination is evaluated, and skipped when it fails; progress is    *)
(* written every FlushEvery of them and after the last.                    *)
EvaluateOne ==
  /\ job = "searching" /\ tried < Budget
  /\ tried' = tried + 1
  /\ \/ \E s \in Scores, near \in GoodPool :
          results' = Append(results, [params |-> tried + 1, score |-> s, near |-> near])
     \/ UNCHANGED results
  /\ run' = IF tried' % FlushEvery = 0 \/ tried' = Budget THEN Updated([run EXCEPT !.completed = tried']) ELSE run
  /\ job' = IF tried' = Budget THEN "finishing" ELSE job
  /\ UNCHANGED <<kind, dbErrors>>

BestFirstAll(list) == SortedByScore(list)
BestOfFirst(list) == SortedByScore(Leaders(list, TopN))
BestFirst(list) == Leaders(SortedByScore(list), TopN)

(* The last write: the leaderboard, the best parameters, all done. *)
FinishSearch ==
  /\ job = "finishing"
  /\ LET board == BestFirst(results)
     IN run' = Updated([status |-> "done", completed |-> Budget,
                        leaderboard |-> [i \in DOMAIN board |-> board[i].params],
                        best |-> IF board = <<>> THEN None ELSE board[1].params])
  /\ job' = "none"
  /\ UNCHANGED <<kind, results, tried, dbErrors>>

(* A database call fails: the row is marked failed, if that write          *)
(* succeeds, unless the row could not even be read.                        *)
DatabaseFails ==
  /\ job # "none" /\ dbErrors < DbFailures
  /\ dbErrors' = dbErrors + 1
  /\ job' \in (IF job = "failing" THEN {"none"} ELSE IF job = "created" THEN {"none", "failing"} ELSE {"failing"})
  /\ UNCHANGED <<kind, run, results, tried>>

MarkFailed ==
  /\ job = "failing"
  /\ run' = Updated([run EXCEPT !.status = "failed"])
  /\ job' = "none"
  /\ UNCHANGED <<kind, results, tried, dbErrors>>

(* DELETE, at any moment: the job is not told. *)
DeleteRun ==
  /\ run.status # "absent"
  /\ run' = [run EXCEPT !.status = "absent"]
  /\ UNCHANGED <<kind, job, results, tried, dbErrors>>

(* The server restarts: the job is gone, its row stays as it was. *)
RestartServer ==
  /\ job # "none"
  /\ job' = "none"
  /\ UNCHANGED <<kind, run, results, tried, dbErrors>>

SearchNext ==
  \/ StartSearch \/ BeginSearch \/ LoadBars \/ EvaluateOne \/ FinishSearch
  \/ DatabaseFails \/ MarkFailed \/ DeleteRun \/ RestartServer

SearchSpec == SearchInit /\ [][SearchNext]_searchVars

-----------------------------------------------------------------------------

(* A run that says done evaluated everything, and nothing it left off the  *)
(* leaderboard scored more than what it lists; the best parameters are of  *)
(* a highest score.  Progress is never ahead of the evaluations, nor more  *)
(* than one flush behind while the job searches.                           *)
LeaderboardBest ==
  LET scored(p) == CHOOSE r \in {results[i] : i \in DOMAIN results} : r.params = p
      listed == {run.leaderboard[i] : i \in DOMAIN run.leaderboard}
      all == {results[i].params : i \in DOMAIN results}
      rest == all \ listed
  IN /\ run.status = "done" =>
          /\ tried = Budget /\ listed \subseteq all
          /\ rest # {} => Cardinality(listed) = TopN
          /\ \A p \in listed, q \in rest : scored(p).score >= scored(q).score
          /\ (run.best = None) <=> (all = {})
          /\ run.best # None => \A q \in all : scored(run.best).score >= scored(q).score
     /\ run.completed <= tried
     /\ (job = "searching" /\ run.status = "running" /\ dbErrors = 0) => tried - run.completed < FlushEvery
=============================================================================
