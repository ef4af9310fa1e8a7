--------------------------- MODULE MCAnswerStream ---------------------------
(* A small instance of AnswerStream: see AnswerStream.cfg.                   *)
EXTENDS AnswerStream
=============================================================================
