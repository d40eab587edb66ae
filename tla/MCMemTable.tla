---------------------------- MODULE MCMemTable ----------------------------
EXTENDS MemTable

(* Two documents are equally similar.                                      *)
MCSimilarity(d) == <<30, 10, 20, 20>>[d]
=============================================================================
