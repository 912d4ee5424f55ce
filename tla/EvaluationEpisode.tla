-------------------------- MODULE EvaluationEpisode --------------------------
(***************************************************************************)
(* One evaluation episode of a policy (run_episode of                      *)
(* stackpilot/hard_policy_eval.py; react_agent_eval.py keeps the same      *)
(* protocol) as a function of what the policy says, and the contract every *)
(* stored episode must satisfy before it is written, reused or reported    *)
(* (episode_validation_error of hard_rq0_contract.py, which recomputes     *)
(* every derived field from the recorded titles).                          *)
(*                                                                         *)
(* Recalls and gains are numbers of gold titles: the code divides both by  *)
(* the number of gold titles.                                              *)
(***************************************************************************)
EXTENDS PolicyProtocol

NewEpisode ==
  [attempts |-> 0, over |-> FALSE, prediction |-> "", failure |-> 0,
   invalid |-> 0, queries |-> <<>>, turns |-> <<>>,
   retrieved |-> {}, observed |-> {}, recall |-> 0]

Answered(e, answer) == [e EXCEPT !.prediction = answer, !.over = TRUE]

Malformed(e) == [e EXCEPT !.invalid = @ + 1]

\* A search shows the titles of its results that lie in the budget.
Searched(e, query, titles, seen) ==
  LET retrieved == e.retrieved \union ToSet(titles)
      observed  == e.observed \union ToSet(seen)
      recall    == Covered(observed)
  IN  [e EXCEPT !.queries = Append(@, query), !.retrieved = retrieved,
                !.observed = observed, !.recall = recall,
                !.turns = Append(@, [turn |-> Len(e.queries) + 1, query |-> query,
                     retrieved |-> titles, observed |-> seen,
                     retrievedRecall |-> Covered(retrieved), recall |-> recall,
                     gain |-> recall - e.recall,
                     newSupport |-> (Gold \intersect ToSet(seen)) \ e.observed])]

Received(e, query, results) ==
  Searched(e, query, Titles(results), ObservedTitles(results))

\* Mutant of Final: a forced-final search counts as malformed.
FinalCountsSearch(e, action) ==
  IF action.kind = "answer" THEN Answered(e, action.value)
  ELSE [e EXCEPT !.over = TRUE, !.failure = 1, !.invalid = @ + 1]

\* The forced final action: only an answer counts, a search cannot run any more
\* and is not malformed.
Final(e, action) ==
  IF action.kind = "answer" THEN Answered(e, action.value)
  ELSE [e EXCEPT !.over = TRUE, !.failure = 1,
                 !.invalid = @ + IF action.kind = "invalid" THEN 1 ELSE 0]

Attempt(e, backend, action) ==
  CASE action.kind = "answer" -> Answered(e, action.value)
    [] action.kind = "search" ->
         Received(e, action.value, Normalized(Search(backend, action.value)))
    [] OTHER -> Malformed(e)

\* Every action of the loop consumes one of the turns, a malformed one too.
Step(e, backend, turns, text) ==
  LET action == ParseAction(text)
      begun  == [e EXCEPT !.attempts = @ + 1]
  IN  IF e.over THEN e
      ELSE IF e.attempts < turns THEN Attempt(begun, backend, action)
      ELSE Final(begun, action)

RunEpisode(backend, turns, script) ==
  FoldLeft(LAMBDA e, text : Step(e, backend, turns, text), NewEpisode, script)

RecallAt(e, i) ==
  IF e.turns = <<>> THEN 0 ELSE e.turns[Min({i, Len(e.turns)})].recall

GainAt(e, i) == IF i <= Len(e.turns) THEN e.turns[i].gain ELSE 0

FirstMiss(e) == RecallAt(e, 1) < Cardinality(Gold)

\* The stored row of a finished episode.
Row(e) ==
  [topk |-> Topk, prediction |-> e.prediction, failure |-> e.failure,
   invalid |-> e.invalid, queries |-> e.queries, turns |-> e.turns,
   em |-> IF e.failure = 1 THEN 0 ELSE ExactMatch(e.prediction),
   retrievedRecall |-> IF e.turns = <<>> THEN 0 ELSE Last(e.turns).retrievedRecall,
   recall |-> IF e.turns = <<>> THEN 0 ELSE Last(e.turns).recall,
   turnRecall |-> [i \in 1..3 |-> RecallAt(e, i)],
   turnGain |-> [i \in 2..3 |-> GainAt(e, i)],
   recovery |-> [i \in 2..3 |-> FirstMiss(e) /\ RecallAt(e, i) > RecallAt(e, 1)],
   full |-> [i \in 2..3 |-> FirstMiss(e) /\ RecallAt(e, i) = Cardinality(Gold)]]

-----------------------------------------------------------------------------
\* The contract.

CountsAreLegal(row, turns) ==
  /\ Len(row.turns) = Len(row.queries)
  /\ Len(row.turns) <= turns
  /\ row.invalid <= turns + 1
  /\ Len(row.queries) + row.invalid <= turns + row.failure

AnswerIsLegal(row) ==
  /\ (row.failure = 1) <=> (row.prediction = "")
  /\ row.em = IF row.failure = 1 THEN 0 ELSE ExactMatch(row.prediction)

\* The titles of the first i turns.
Recorded(row, i) == UNION {ToSet(row.turns[j].retrieved) : j \in 1..i}

RecordedSeen(row, i) == UNION {ToSet(row.turns[j].observed) : j \in 1..i}

TurnIsLegal(row, i) ==
  LET t == row.turns[i]
      before == IF i = 1 THEN 0 ELSE row.turns[i - 1].recall
  IN  /\ t.turn = i /\ t.query = row.queries[i]
      /\ Len(t.retrieved) <= row.topk
      /\ ToSet(t.observed) \subseteq ToSet(t.retrieved)
      /\ t.newSupport = (Gold \intersect ToSet(t.observed)) \ RecordedSeen(row, i - 1)
      /\ t.retrievedRecall = Covered(Recorded(row, i))
      /\ t.recall = Covered(RecordedSeen(row, i))
      /\ before <= t.recall /\ t.recall <= t.retrievedRecall
      /\ t.gain = t.recall - before

SummaryIsLegal(row) ==
  LET n == Len(row.turns)
      at(i) == IF n = 0 THEN 0 ELSE Covered(RecordedSeen(row, Min({i, n})))
      missed == at(1) < Cardinality(Gold)
  IN  /\ row.retrievedRecall = Covered(Recorded(row, n))
      /\ row.recall = at(n)
      /\ \A i \in 1..3 : row.turnRecall[i] = at(i)
      /\ \A i \in 2..3 :
           /\ row.turnGain[i] = IF i <= n THEN at(i) - at(i - 1) ELSE 0
           /\ row.recovery[i] <=> missed /\ at(i) > at(1)
           /\ row.full[i] <=> missed /\ at(i) = Cardinality(Gold)

EpisodeIsLegal(row, turns) ==
  /\ CountsAreLegal(row, turns)
  /\ AnswerIsLegal(row)
  /\ \A i \in DOMAIN row.turns : TurnIsLegal(row, i)
  /\ SummaryIsLegal(row)
=============================================================================
