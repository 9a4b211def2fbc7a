--------------------------- MODULE MCQuoteStream ---------------------------
(***************************************************************************)
(* QuoteStream for TLC: a symbol with statistics.  Symbols share nothing   *)
(* but the run that drains and stores their books.                         *)
(***************************************************************************)
EXTENDS QuoteStream

CONSTANT daily
=============================================================================
