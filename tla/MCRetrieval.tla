----------------------------- MODULE MCRetrieval -----------------------------
EXTENDS Retrieval

CONSTANTS ann, bob, x, y, why, bos

MCQuestion(c) == <<why>>
MCAnswers == {<<>>, <<x, y>>}
=============================================================================
