---------------------------- MODULE PolicyProtocol ----------------------------
(***************************************************************************)
(* What the training rollout and the offline evaluators of one policy have *)
(* in common: the action parser (stackpilot/action_protocol.py), the       *)
(* bounded rendering of a retrieval result (observation_geometry.py), the  *)
(* client's normal form of a document (retrieval_clients.py) and the       *)
(* retrievers, one of which is the fusion of the other two                 *)
(* (hybrid_rrf_server.py).                                                 *)
(*                                                                         *)
(* A generated text is a sequence of blocks [kind, value, tags]: kind is   *)
(* "search", "answer", "think" or "text"; value is the query or the answer *)
(* ("" when blank), and for a think block the kind of the action it hides, *)
(* or ""; tags says that the block also holds a stray control tag.  A      *)
(* document is [id, title, quoted, text]: a ranked passage whose stored    *)
(* contents may put its title in double quotes and whose text is as many   *)
(* tokens long.  Titles are compared in their normal form, so a title is a *)
(* plain value and only its rendered length keeps the quotes.              *)
(***************************************************************************)
EXTENDS Naturals, SequencesExt, FiniteSetsExt

CONSTANTS
  Corpus,     \* [backend -> [query -> ranked sequence of documents]]
  Gold,       \* the normalized support titles of the question
  Aliases,    \* the accepted answers
  Topk,
  Budget,     \* the observation budget, in tokens
  Rrf         \* the constant of reciprocal rank fusion

Backends == {"bm25", "e5"}

Blocks ==
  [kind : {"search", "answer", "think", "text"}, value : STRING, tags : BOOLEAN]

Documents == [id : Nat, title : STRING, quoted : BOOLEAN, text : Nat]

ASSUME ProtocolAssumption ==
  /\ DOMAIN Corpus = Backends
  /\ \A b \in Backends : \A q \in DOMAIN Corpus[b] : Corpus[b][q] \in Seq(Documents)
  /\ Gold # {} /\ IsFiniteSet(Gold)
  /\ Aliases # {}
  /\ Topk \in Nat \ {0} /\ Budget \in Nat \ {0} /\ Rrf \in Nat \ {0}

-----------------------------------------------------------------------------
\* The action parser.  A text is an action when it holds one action block, not
\* inside a think block, and nothing else but think blocks free of control tags.

Invalid == [kind |-> "invalid", value |-> ""]

IsAction(block) == block.kind \in {"search", "answer"}

HidesAction(block) == block.kind = "think" /\ block.value # ""

ParseAction(text) ==
  LET actions == {i \in DOMAIN text : IsAction(text[i])}
      others  == {text[i] : i \in DOMAIN text \ actions}
      action  == text[CHOOSE i \in actions : TRUE]
  IN  IF /\ Cardinality(actions) = 1
         /\ \A b \in others : b.kind = "think" /\ ~b.tags /\ ~HidesAction(b)
         /\ action.value # "" /\ ~action.tags
      THEN [kind |-> action.kind, value |-> action.value]
      ELSE Invalid

-----------------------------------------------------------------------------
\* Rendering.  The wrapper opens with a token, then every passage is a header
\* and a text; a title is observed when its whole header lies in the budget.

\* normalize_document: the client takes the quotes off the stored title.
Normalized(results) ==
  [i \in DOMAIN results |-> [results[i] EXCEPT !.quoted = FALSE]]

Header(doc) == IF doc.quoted THEN 2 ELSE 1

Tokens(results) == FoldLeft(LAMBDA n, doc : n + Header(doc) + doc.text, 1, results)

TokenCount(results) == Tokens(results) + 1

VisibleTokens(results) == Min({TokenCount(results), Budget})

Titles(results) == [i \in DOMAIN results |-> results[i].title]

ObservedTitles(results) ==
  Titles(SubSeq(results, 1,
    Cardinality({i \in DOMAIN results :
                   Tokens(SubSeq(results, 1, i - 1)) + Header(results[i]) <= Budget})))

-----------------------------------------------------------------------------
\* Retrieval.  A retriever returns the head of its own ranking; the hybrid one
\* fuses the two candidate lists: a document scores 1 / (Rrf + rank) in every
\* list, as many times as it is listed, and ties are broken by the key.

Ranks ==
  1..Max(UNION {{Len(Corpus[b][q]) : q \in DOMAIN Corpus[b]} : b \in Backends} \union {1})

\* 1 / (Rrf + rank), brought to a common denominator.
Weight(rank) == ProductSet({Rrf + r : r \in Ranks}) \div (Rrf + rank)

Score(rankings, key) ==
  MapThenSumSet(LAMBDA b :
      MapThenSumSet(Weight, {i \in DOMAIN rankings[b] : rankings[b][i].id = key}),
    Backends)

Payload(rankings, key) ==
  LET all == rankings["bm25"] \o rankings["e5"]
  IN  all[Min({i \in DOMAIN all : all[i].id = key})]

FirstOf(s, n) == SubSeq(s, 1, Min({n, Len(s)}))

Fuse(rankings, topk) ==
  LET keys    == UNION {{rankings[b][i].id : i \in DOMAIN rankings[b]} : b \in Backends}
      before(j, k) == \/ Score(rankings, j) > Score(rankings, k)
                      \/ Score(rankings, j) = Score(rankings, k) /\ j < k
      ordered == SetToSortSeq(keys, before)
  IN  [i \in 1..Min({topk, Cardinality(keys)}) |-> Payload(rankings, ordered[i])]

Search(backend, query) ==
  IF backend = "hybrid"
  THEN Fuse([b \in Backends |-> Corpus[b][query]], Topk)
  ELSE FirstOf(Corpus[backend][query], Topk)

-----------------------------------------------------------------------------
\* Scores: exact match over the accepted answers, and the gold titles covered.

ExactMatch(answer) == IF answer \in Aliases THEN 1 ELSE 0

Covered(titles) == Cardinality(Gold \intersect titles)
=============================================================================
