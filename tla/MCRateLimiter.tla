---------------------------- MODULE MCRateLimiter ----------------------------
(***************************************************************************)
(* RateLimiter with a reader and a writer, or the reader alone.            *)
(***************************************************************************)
EXTENDS RateLimiter

CONSTANTS reader, writer
=============================================================================
