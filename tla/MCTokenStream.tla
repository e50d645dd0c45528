---------------------------- MODULE MCTokenStream ----------------------------
(***************************************************************************)
(* TokenStream on every token sequence of up to MaxLen tokens: comments at *)
(* the start, at the end, alone and in runs.                               *)
(***************************************************************************)
EXTENDS TokenStream, SequencesExt

CONSTANT MaxLen
MCRaws == BoundedSeq({"IDENT", "COMMA", "COMMENT"}, MaxLen)
MCExpected == {"COMMA", "EOF"}
=============================================================================
