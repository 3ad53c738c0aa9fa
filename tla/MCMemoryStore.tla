---------------------------- MODULE MCMemoryStore ----------------------------
(* MemoryStore on a small instance: the words of texts and questions. *)
EXTENDS MemoryStore, TLC

Tea == <<"green", "tea">>
Cup == <<"tea", "cup">>
Symmetry == Permutations(Clients)

MCTexts == {Tea, Cup}
MCQuestions == {<<>>, <<"green", "tea">>}
MCNear == [p \in MCQuestions \X MCTexts |-> IF p[2] = Cup THEN 1 ELSE 0]
==============================================================================
