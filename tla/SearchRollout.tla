---------------------------- MODULE SearchRollout ----------------------------
(***************************************************************************)
(* One batch of the patched Search-R1 rollout, in training or validation,  *)
(* with the retriever router it talks to, and the reward of its rows:      *)
(*   hard_rq0/patch_searchr1_action_protocol.py, _observation_geometry.py, *)
(*   _mixed.py, _validation.py, _reward_protocol.py, _evidence_reward.py   *)
(*     (the code these patches put into Search-R1's generation.py,         *)
(*     ray_trainer.py and main_ppo.py)                                     *)
(*   stackpilot/mixed_retriever_server.py (the router: split by backend,   *)
(*     two concurrent upstream calls, order restored)                      *)
(*                                                                         *)
(* All rows of the batch take their turns together.  The searches of a     *)
(* turn go to the retriever as one request and come back as one list; the  *)
(* rows then pop their results, and their titles, from queues.  Search-R1  *)
(* itself is not in the repository: its loop is modelled from the blocks   *)
(* the patches replace.                                                    *)
(***************************************************************************)
EXTENDS EvaluationEpisode, Integers

CONSTANTS
  Plans,        \* the batches, see PlanAssumption
  MaxResponse   \* tokens of a trajectory the trainer can represent

ASSUME WindowAssumption == MaxResponse \in Nat

ASSUME PlanAssumption ==
  \A p \in Plans :
    /\ p.mode \in {"single", "blind", "oracle", "validation"}
    /\ p.prompts \in Seq(Backends) \ {<<>>}   \* the source prompts, one backend hint each
    /\ p.agents \in Nat \ {0}   \* rollouts per prompt
    /\ p.workers \in Nat \ {0}  \* rollout world size, the divisor of the padding
    /\ p.turns \in Nat \ {0}
    /\ p.texts # {} /\ p.texts \subseteq Seq(Blocks)   \* what the policy may generate
    /\ \A text \in p.texts :    \* the retrievers answer every search
         LET action == ParseAction(text)
         IN  action.kind = "search" => \A b \in Backends : action.value \in DOMAIN Corpus[b]

VARIABLES
  plan,      \* the batch
  stage,     \* where the rollout is
  turn,      \* the current turn; plan.turns + 1 is the forced final one
  rows,      \* the per-row protocol state, in batch order
  upstream,  \* the router's call to each backend
  reply,     \* the results of the request, in request order
  counts     \* the router's counters

rolloutVars == <<plan, stage, turn, rows, upstream, reply, counts>>

-----------------------------------------------------------------------------
\* The batch.

\* Validation pads the batch with prefixes of itself up to a multiple of the
\* world size; training repeats every prompt agents times, side by side.
Padding(n, divisor) == (divisor - (n % divisor)) % divisor

\* Mutant of PaddedBatch: the batch is repeated once only, as upstream does.
PaddedOnce(n, divisor) ==
  [i \in 1..(n + Min({n, Padding(n, divisor)})) |-> ((i - 1) % n) + 1]

PaddedBatch(n, divisor) ==
  [i \in 1..(n + Padding(n, divisor)) |-> ((i - 1) % n) + 1]

RepeatedBatch(n, agents) == [i \in 1..(n * agents) |-> ((i - 1) \div agents) + 1]

Batch(p) ==
  IF p.mode = "validation" THEN PaddedBatch(Len(p.prompts), p.workers)
  ELSE RepeatedBatch(Len(p.prompts), p.agents)

NewRow(prompt) ==
  [prompt |-> prompt, backend |-> "", active |-> TRUE, script |-> <<>>,
   answer |-> "", failure |-> 1, invalid |-> 0, searches |-> 0,
   truncated |-> 0, length |-> 0, retrieved |-> <<>>, observed |-> <<>>]

RolloutInit ==
  /\ plan \in Plans
  /\ stage = "assign" /\ turn = 1
  /\ rows = [i \in DOMAIN Batch(plan) |-> NewRow(Batch(plan)[i])]
  /\ upstream = [b \in Backends |-> "idle"]
  /\ reply = <<>>
  /\ counts = [b \in Backends |-> 0]

-----------------------------------------------------------------------------
\* Routing.

\* Blind training: whole prompt groups are dealt to the two backends, half and
\* half; it needs an even number of them.
EvenSplits(groups) ==
  {f \in [1..groups -> Backends] :
     2 * Cardinality({g \in 1..groups : f[g] = "bm25"}) = groups}

\* The other modes read the backend off the prompt: an oracle marker, the hidden
\* routing_backend of a validation row, or the one retriever of a specialist.
Routes(p) ==
  LET n == Len(p.prompts)
  IN  CASE p.mode = "blind"  -> EvenSplits(n)
        [] p.mode = "single" -> {[g \in 1..n |-> p.prompts[1]]}
        [] OTHER             -> {p.prompts}

Assign ==
  /\ stage = "assign" /\ Routes(plan) # {}
  /\ \E route \in Routes(plan) :
       rows' = [i \in DOMAIN rows |->
                  [rows[i] EXCEPT !.backend = route[rows[i].prompt]]]
  /\ stage' = "generate"
  /\ UNCHANGED <<plan, turn, upstream, reply, counts>>

RefuseBatch ==
  /\ stage = "assign" /\ Routes(plan) = {}
  /\ stage' = "failed"
  /\ UNCHANGED <<plan, turn, rows, upstream, reply, counts>>

-----------------------------------------------------------------------------
\* A turn.

Active == {i \in DOMAIN rows : rows[i].active}

DoSearch == turn <= plan.turns

Action(row) == ParseAction(Last(row.script))

\* The rows that ask for a search in this turn, in batch order: the queue order.
Searching == {i \in Active : Action(rows[i]).kind = "search"}

InOrder(S) ==
  [k \in 1..Cardinality(S) |-> CHOOSE i \in S : Cardinality({j \in S : j <= i}) = k]

Searchers == InOrder(Searching)

\* Only active rows generate; their texts are kept whole, they are not cut at
\* the first closing tag.
Generate ==
  /\ stage = "generate"
  /\ \E texts \in [Active -> plan.texts] :
       rows' = [i \in DOMAIN rows |->
                  IF i \in Active
                  THEN [rows[i] EXCEPT !.script = Append(@, texts[i])]
                  ELSE rows[i]]
  /\ stage' = IF DoSearch THEN "route" ELSE "execute"
  /\ reply' = <<>>
  /\ UNCHANGED <<plan, turn, upstream, counts>>

\* The router groups the queries by backend; a backend nobody asked for is not
\* called.  An empty request comes back empty.
Asked(b) == InOrder({i \in Searching : rows[i].backend = b})

Route ==
  /\ stage = "route"
  /\ stage' = "join"
  /\ upstream' = [b \in Backends |-> IF Asked(b) # <<>> THEN "called" ELSE "idle"]
  /\ UNCHANGED <<plan, turn, rows, reply, counts>>

\* Each upstream call ends by itself, with one result per query or an error.
UpstreamEnds(b) ==
  /\ upstream[b] = "called"
  /\ \E end \in {"answered", "failed"} : upstream' = [upstream EXCEPT ![b] = end]
  /\ UNCHANGED <<plan, stage, turn, rows, reply, counts>>

Query(i) == Action(rows[i]).value

Results(b) ==
  [k \in DOMAIN Asked(b) |-> Search(b, Query(Asked(b)[k]))]

\* Mutant of RestoredOrder: the groups are put one behind the other.
GroupOrder == Results("bm25") \o Results("e5")

\* The results of the groups, put back at the positions of their queries.
RestoredOrder ==
  [k \in DOMAIN Searchers |->
     LET b  == rows[Searchers[k]].backend
         at == CHOOSE j \in DOMAIN Asked(b) : Asked(b)[j] = Searchers[k]
     IN  Results(b)[at]]

\* Both calls are waited for before an error is raised or a batch is answered;
\* only an answered batch is counted.
Join ==
  /\ stage = "join"
  /\ \A b \in Backends : upstream[b] \notin {"called", "failed"}
  /\ reply' = RestoredOrder
  /\ counts' = [b \in Backends |-> counts[b] + Len(Asked(b))]
  /\ stage' = "execute"
  /\ upstream' = [b \in Backends |-> "idle"]
  /\ UNCHANGED <<plan, turn, rows>>

JoinFails ==
  /\ stage = "join"
  /\ \A b \in Backends : upstream[b] # "called"
  /\ \E b \in Backends : upstream[b] = "failed"
  /\ stage' = "failed"
  /\ upstream' = [b \in Backends |-> "idle"]
  /\ UNCHANGED <<plan, turn, rows, reply, counts>>

-----------------------------------------------------------------------------
\* execute_predictions: every active row handles its action.  state is the
\* rows and the two queues, of results and of observed titles, still to pop.

\* The queues; the forced final turn has an empty placeholder per search.
Queue == IF DoSearch THEN reply ELSE [k \in DOMAIN Searchers |-> <<>>]

Finished(row, action) ==
  [row EXCEPT !.answer = action.value, !.failure = 0, !.active = FALSE]

\* Mutant of Longer: the mark is that of the last tokens only.
LongerAtLast(row, tokens) ==
  LET length == row.length + tokens
  IN  [row EXCEPT !.length = Min({length, MaxResponse}),
                  !.truncated = IF length > MaxResponse THEN 1 ELSE 0]

\* A trajectory that outgrows the trainer's window is cut and marked for good.
Longer(row, tokens) ==
  LET length == row.length + tokens
  IN  [row EXCEPT !.length = Min({length, MaxResponse}),
                  !.truncated = IF length > MaxResponse THEN 1 ELSE @]

Said(row) == Longer(row, Len(Last(row.script)))

Found(row, results) ==
  Longer([row EXCEPT !.searches = @ + 1,
                     !.retrieved = @ \o Titles(results),
                     !.observed = @ \o ObservedTitles(results)],
         VisibleTokens(results))

ActOnRow(state, i) ==
  LET row    == Said(state.rows[i])
      action == Action(row)
      popped == [state EXCEPT !.queue = Tail(@)]
  IN  CASE ~state.rows[i].active -> state
        [] state.rows[i].active /\ action.kind = "answer" ->
             [state EXCEPT !.rows[i] = Finished(row, action)]
        [] state.rows[i].active /\ action.kind = "search" /\ DoSearch ->
             [popped EXCEPT !.rows[i] = Found(row, Head(state.queue))]
        [] state.rows[i].active /\ action.kind = "search" /\ ~DoSearch ->
             [popped EXCEPT !.rows[i] = [row EXCEPT !.active = FALSE]]
        [] OTHER ->
             [state EXCEPT !.rows[i] =
                Longer([row EXCEPT !.invalid = @ + 1, !.active = DoSearch],
                       IF DoSearch THEN 1 ELSE 0)]

Executed ==
  FoldLeft(ActOnRow, [rows |-> rows, queue |-> Queue], [i \in DOMAIN rows |-> i])

\* Leftover results are an assertion failure of Search-R1; otherwise the next
\* turn, the forced final one after the last, or the end.
Execute ==
  /\ stage = "execute"
  /\ rows' = Executed.rows
  /\ stage' = IF Executed.queue # <<>> THEN "failed"
              ELSE IF DoSearch /\ \E i \in DOMAIN rows : Executed.rows[i].active
              THEN "generate" ELSE "done"
  /\ turn' = IF \E i \in DOMAIN rows : Executed.rows[i].active THEN turn + 1 ELSE turn
  /\ UNCHANGED <<plan, upstream, reply, counts>>

Stopped ==
  /\ stage \in {"done", "failed"}
  /\ UNCHANGED rolloutVars

RolloutNext ==
  \/ Assign \/ RefuseBatch
  \/ Generate \/ Route \/ Join \/ JoinFails
  \/ \E b \in Backends : UpstreamEnds(b)
  \/ Execute
  \/ Stopped

RolloutSpec == RolloutInit /\ [][RolloutNext]_rolloutVars

-----------------------------------------------------------------------------
\* The reward of a row of a finished batch, in fiftieths of 1 / |Gold|: the
\* weights are 1, 0.5 and 0.02.

AnswerScore(row) ==
  IF row.failure = 1 \/ row.truncated = 1 THEN 0 ELSE ExactMatch(row.answer)

EvidenceScore(row) ==
  IF row.failure = 1 THEN 0 ELSE Covered(ToSet(row.observed))

AnswerReward(row) == AnswerScore(row) * 50 * Cardinality(Gold)

RewardWithEvidence(row) ==
  IF row.truncated = 1 THEN 0
  ELSE AnswerScore(row) * 50 * Cardinality(Gold) + 25 * EvidenceScore(row)
       - row.searches * Cardinality(Gold)

\* The rows the trainer keeps: the padding is cut off again.
Kept ==
  IF plan.mode = "validation"
  THEN SubSeq(rows, 1, Len(rows) - Padding(Len(plan.prompts), plan.workers))
  ELSE rows

EpisodeOf(row, backend) == RunEpisode(backend, plan.turns, row.script)

-----------------------------------------------------------------------------
\* Properties.

\* Every variable holds a value of its kind.
TypeOK ==
  /\ plan \in Plans
  /\ stage \in {"assign", "generate", "route", "join", "execute", "done", "failed"}
  /\ turn \in 1..(plan.turns + 2)
  /\ \A i \in DOMAIN rows :
       /\ rows[i].backend \in Backends \union {""}
       /\ rows[i].failure \in {0, 1} /\ rows[i].truncated \in {0, 1}
       /\ rows[i].length \in 0..MaxResponse
  /\ upstream \in [Backends -> {"idle", "called", "answered", "failed"}]
  /\ counts \in [Backends -> Nat]

\* The turns of a row that allowed a search.
SearchTurns(row) == 1..Min({Len(row.script), plan.turns})

Settled == stage \in {"generate", "done"}

\* The titles a row has found, turn by turn, as its script tells its searches.
OwnTitles(row, k) ==
  LET action == ParseAction(row.script[k])
  IN  IF action.kind = "search" THEN Titles(Search(row.backend, action.value)) ELSE <<>>

\* Between turns every row holds the titles its own queries found on its own
\* backend, in the order it asked for them: neither the split by backend nor the
\* queues shared by the rows give a row another row's results.
TitlesAreOwn ==
  Settled =>
    \A i \in DOMAIN rows :
      rows[i].retrieved = FlattenSeq([k \in SearchTurns(rows[i]) |-> OwnTitles(rows[i], k)])

\* The turn uses up its queues, so the assertion that follows it in the rollout
\* cannot stop a batch, whichever rows search on the forced final turn.
QueuesAreExhausted == stage = "execute" => Executed.queue = <<>>

\* The router has counted, for each backend, exactly the searches the rows of
\* the batch executed there: none for an answer that was never delivered.
CountsAreExact ==
  Settled \/ stage = "failed" =>
    \A b \in Backends :
      LET own == {i \in DOMAIN rows : rows[i].backend = b}
      IN  counts[b] = Cardinality(UNION {{i} \X (1..rows[i].searches) : i \in own})

\* The rows stay apart, in what they hold and in what the router has counted.
RowsAreAligned ==
  TypeOK /\ TitlesAreOwn /\ QueuesAreExhausted /\ CountsAreExact

\* The titles that quotes hide from the search of a text: evaluation normalizes the
\* result first, training renders the stored contents, whose quotes cost tokens.
HiddenBy(backend, text) ==
  LET action  == ParseAction(text)
      results == Search(backend, action.value)
  IN  IF action.kind = "search"
      THEN ToSet(ObservedTitles(Normalized(results))) \ ToSet(ObservedTitles(results))
      ELSE {}

Hidden(row) == UNION {HiddenBy(row.backend, row.script[k]) : k \in SearchTurns(row)}

\* The evaluator credits a row with the titles that it was shown in training and
\* with those that quotes hid from its searches, and with no other.
QuotesHideTitles ==
  stage = "done" =>
    \A i \in DOMAIN rows :
      EpisodeOf(rows[i], rows[i].backend).observed
        = ToSet(rows[i].observed) \union Hidden(rows[i])

\* Training shows a policy the titles that evaluation shows it for the same
\* actions: the raw and the normalized result render alike.
ObservationsMatch ==
  stage = "done" =>
    \A i \in DOMAIN rows :
      ToSet(rows[i].observed) = EpisodeOf(rows[i], rows[i].backend).observed

\* Whatever a policy says, the episode the evaluator records for it satisfies the
\* contract that its readers check, on every retriever, the hybrid one included.
EpisodesAreLegal ==
  stage = "done" =>
    \A i \in DOMAIN rows : \A b \in Backends \union {"hybrid"} :
      EpisodeIsLegal(Row(EpisodeOf(rows[i], b)), plan.turns)

EndsAs(row, e) ==
  /\ e.over
  /\ row.answer = e.prediction /\ row.failure = e.failure
  /\ row.invalid = e.invalid /\ row.searches = Len(e.queries)
  /\ ToSet(row.retrieved) = e.retrieved

\* A finished batch gives every row the episode that the evaluator would record
\* for the same texts on the same backend: over, with the same answer, protocol
\* failure, malformed actions, searches and retrieved titles, and with the observed
\* ones but for what quotes hide; and that record is legal.
TrainingMatchesEvaluation ==
  /\ EpisodesAreLegal
  /\ QuotesHideTitles
  /\ stage = "done" =>
       \A i \in DOMAIN rows : EndsAs(rows[i], EpisodeOf(rows[i], rows[i].backend))

\* The tokens of a whole trajectory: every text, and what its execution adds to it,
\* the visible result of a search or the error message of a malformed action.
AddedBy(backend, text) ==
  LET action == ParseAction(text)
  IN  CASE action.kind = "search"  -> VisibleTokens(Search(backend, action.value))
        [] action.kind = "invalid" -> 1
        [] OTHER                   -> 0

Trajectory(row) ==
  FoldLeft(LAMBDA n, tokens : n + tokens, 0,
    [k \in DOMAIN row.script |->
       Len(row.script[k])
         + IF k \in SearchTurns(row) THEN AddedBy(row.backend, row.script[k]) ELSE 0])

\* The gold titles that the evaluator credits and the policy was never shown.
Missed(row) == (Gold \intersect Hidden(row)) \ ToSet(row.observed)

\* What the evaluator's record r of a row is worth.
IsPaid(row, r) ==
  LET gold  == Cardinality(Gold)
      whole == Trajectory(row) <= MaxResponse
      seen  == r.recall - Cardinality(Missed(row))
      paid  == r.em * 50 * gold + (IF r.failure = 1 THEN 0 ELSE 25 * seen)
               - Len(r.queries) * gold
  IN  /\ AnswerReward(row) = IF whole THEN r.em * 50 * gold ELSE 0
      /\ RewardWithEvidence(row) = IF whole THEN paid ELSE 0

\* The reward is the evaluator's own metrics, EM for the answer reward and
\* EM + 0.5 recall - 0.02 searches for the evidence reward (no recall for a
\* protocol failure, nor of the gold titles that quotes hid), and exactly zero for
\* a trajectory that does not fit the trainer's window.
RewardIsTheMetric ==
  stage = "done" =>
    \A row \in ToSet(Kept) : IsPaid(row, Row(EpisodeOf(row, row.backend)))

\* A validation batch fills the workers evenly, and what is left of it after the
\* padding is cut off is every source row once, in order.
ValidationScoresEachRow ==
  plan.mode = "validation" =>
    /\ Len(rows) % plan.workers = 0
    /\ [i \in DOMAIN Kept |-> Kept[i].prompt] = [i \in DOMAIN plan.prompts |-> i]
=============================================================================
