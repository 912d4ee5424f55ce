--------------------------- MODULE MCSearchRollout ---------------------------
(* Small values for SearchRollout: two gold titles, two queries that the two *)
(* backends answer differently, a budget that cuts off the third header and, *)
(* for one query, a gold title whose passages are stored with quotes.        *)
EXTENDS SearchRollout

Doc(id, title, text) == [id |-> id, title |-> title, quoted |-> FALSE, text |-> text]

\* The stored wiki-18 contents put the title in double quotes.
Quoted(id, title, text) == [Doc(id, title, text) EXCEPT !.quoted = TRUE]

MCCorpus ==
  [bm25 |-> [q1 |-> <<Doc(1, "g1", 2), Doc(2, "n1", 1), Doc(3, "g2", 1)>>,
             q2 |-> <<Quoted(4, "n2", 1), Quoted(1, "g1", 2)>>],
   e5   |-> [q1 |-> <<Quoted(5, "n3", 2), Quoted(3, "g2", 1), Doc(1, "g1", 2)>>,
             q2 |-> <<Doc(6, "n4", 3), Doc(3, "g2", 1)>>]]

\* Every title is in quotes.
QuotedCorpus ==
  [b \in Backends |-> [q \in DOMAIN MCCorpus[b] |->
     [i \in DOMAIN MCCorpus[b][q] |-> [MCCorpus[b][q][i] EXCEPT !.quoted = TRUE]]]]

Block(kind, value) == [kind |-> kind, value |-> value, tags |-> FALSE]

AnyText ==
  {<<Block("search", "q1")>>,
   <<Block("think", ""), Block("search", "q2")>>,
   <<Block("answer", "right")>>,
   <<Block("answer", "wrong")>>,
   <<Block("text", ""), Block("answer", "right")>>}

FewTexts ==
  {<<Block("search", "q1")>>, <<Block("answer", "right")>>, <<Block("text", "")>>}

Plan(mode, prompts, agents, workers, turns, texts) ==
  [mode |-> mode, prompts |-> prompts, agents |-> agents, workers |-> workers,
   turns |-> turns, texts |-> texts]

MCPlans ==
  {Plan("single", <<"e5">>, 2, 1, 2, AnyText),
   Plan("blind", <<"bm25", "bm25">>, 1, 1, 2, AnyText),
   Plan("blind", <<"bm25", "bm25">>, 2, 1, 1, FewTexts),
   Plan("blind", <<"bm25">>, 2, 1, 1, FewTexts),
   Plan("oracle", <<"e5", "bm25">>, 1, 1, 3, FewTexts),
   Plan("validation", <<"e5">>, 1, 3, 1, AnyText),
   Plan("validation", <<"e5", "bm25">>, 1, 5, 1, FewTexts)}

OneSpecialist == {Plan("single", <<"bm25">>, 2, 1, 2, AnyText)}
=============================================================================
