-------------------------- MODULE MCDataPreparation --------------------------
(***************************************************************************)
(* Two datasets that share no id but may share a question.                 *)
(***************************************************************************)
EXTENDS DataPreparation

Plain(titles) ==
  [listed |-> titles, facts |-> <<>>, paragraphs |-> <<>>,
   context |-> [kind |-> "none", items |-> <<>>], steps |-> <<>>]

Item(title, mark) == [title |-> title, mark |-> mark]

Raw(id, question, titles) ==
  [id |-> id, question |-> question, answers |-> <<"yes", "yes">>, meta |-> Plain(titles)]

MCDatasets == <<"hotpotqa", "musique">>

\* The order of the names of the files.
MCPaths ==
  LET of(dataset) == [i \in 1..5 |->
        <<dataset, <<"dev", "eval", "final_eval", "train", "validation">>[i]>>]
  IN <<<<"data", "SUMMARY">>, <<"data", "eval_all">>, <<"data", "final_eval">>>>
       \o of("hotpotqa") \o of("musique")
       \o <<<<"searchr1", "dev">>, <<"searchr1", "test">>, <<"searchr1", "train">>>>

MCCorpus == <<<<"rome", "Rome">>, <<"oslo", "Oslo">>, <<"bern", "Bern">>, <<"oslo", "OSLO">>>>

MCSource ==
  [hotpotqa |->
     [train |-> <<Raw("a", <<"q1", "">>, <<<<"rome", "Rome">>, <<"rome", "ROME">>>>),
                  [Raw("b", <<"q2", "">>, <<>>) EXCEPT !.meta.context =
                     [kind |-> "columns", items |-> <<Item(<<"oslo", "Oslo">>, "yes"),
                                                      Item(<<"bern", "Bern">>, "no")>>]],
                  Raw("c", <<"q3", "">>, <<<<"york", "York">>>>)>>,
      eval |-> <<Raw("d", <<"q4", "">>, <<<<"oslo", "Oslo">>, <<"oslo", "oslo">>, <<"york", "York">>>>),
                 Raw("e", <<"q3", "Q3">>, <<<<"bern", "Bern">>>>)>>],
   musique |->
     [train |-> <<[Raw("a", <<"q5", "">>, <<>>) EXCEPT !.meta.steps =
                     <<Item(<<"rome", "Rome">>, "unmarked"), Item(<<"bern", "Bern">>, "no")>>],
                  [Raw("b", <<"q6", "">>, <<>>) EXCEPT !.meta.paragraphs =
                     <<Item(<<"york", "York">>, "no"), Item(<<"oslo", "Oslo">>, "yes")>>],
                  Raw("c", <<"q7", "">>, <<<<"bern", "Bern">>>>)>>,
      eval |-> <<[Raw("d", <<"q8", "">>, <<>>) EXCEPT !.meta.facts =
                     <<<<"rome", "Rome">>, <<"york", "York">>>>],
                 Raw("f", <<"q9", "">>, <<<<"york", "York">>, <<"york", "york">>>>)>>]]

MCRequests ==
  {[train |-> 1, dev |-> 1, eval |-> 1, seed |-> 0],
   [train |-> 1, dev |-> 1, eval |-> 1, seed |-> 2],
   [train |-> 1, dev |-> 1, eval |-> 1, seed |-> 1]}

Direct(name) == [kind |-> "direct", path |-> <<"searchr1", name>>]

Derived(role) == [kind |-> "derived", of |-> role]

MCInputs ==
  {<<Direct("train"), Direct("dev")>>,
   <<Derived("trainer_train"), Derived("trainer_validation")>>,
   <<Derived("trainer_validation"), Direct("dev")>>,
   <<Direct("train"), [kind |-> "direct", path |-> <<"data", "final_eval">>]>>,
   <<[kind |-> "direct", path |-> <<"musique", "train">>], Direct("dev")>>}

\* One of the configurations cannot be met.
ASSUME FeasibleAssumption == MCRequests \ Feasible # {} /\ Cardinality(Feasible) = 2
=============================================================================
